---- MODULE Spec2Model ----
(***************************************************************************)
(* Model of the RVG invoice generator (csv-to-PDF).                        *)
(*                                                                         *)
(* Amounts are JavaScript numbers in the source.  A number the program     *)
(* keeps (a parsed column, a field of the invoice data) is modelled as an  *)
(* integer number of cents; the CSV amounts have at most two fractional    *)
(* digits.  Inside a calculation, before toFixed(2), an amount is an       *)
(* integer number of 1/100 cent, which holds every product the calculator  *)
(* forms exactly.  No value the calculator rounds lies at a rounding tie,  *)
(* so the representation error of a double never decides a result.        *)
(*                                                                         *)
(* A JavaScript string is a sequence of one-character strings; a           *)
(* JavaScript value is a record [t, s] with t the typeof tag and s the     *)
(* characters of a string.                                                 *)
(***************************************************************************)
EXTENDS Integers, Sequences, FiniteSets, TLC

VARIABLES
    csvRows,        \* main: the rows readCSV returned
    invoices,       \* main: the invoice records calculated so far
    pc,             \* main: where the run is
    today,          \* the current day of the system clock
    parseArg,       \* the argument of a call of parseGermanNumber
    parsed,         \* what that call returned
    validated,      \* what the last call of validateInvoiceData ended with
    options,        \* main: the parsed command line
    invoicesToProcess,  \* main: the invoices selected for the batch
    attempted,      \* main: how many of them the batch loop has taken up
    successCount,   \* main: the loop's counters
    errorCount,
    exitCode,       \* the status of process.exit, -1 while the process runs
    browser,        \* generatePDF: its local variable browser
    generatedPdfBuffer, \* processInvoice: what generatePDF returned
    files,          \* the files written to the output directory
    outputPath,     \* processInvoice: what savePDF returned
    processed,      \* the invoices processInvoice announced on the console
    briefheadFile,  \* the file at config.briefheadPdf
    stamp           \* the calls of stampPDFOnBriefhead: their local variables

\* the variables of the batch loop of main
batchVars ==
    <<options, invoicesToProcess, attempted, successCount, errorCount,
      exitCode, browser, generatedPdfBuffer, files, outputPath, processed>>

\* the variables of stampPDFOnBriefhead
stampVars == <<briefheadFile, stamp>>

vars ==
    <<csvRows, invoices, pc, today, parseArg, parsed, validated, batchVars, stampVars>>

(***************************************************************************)
(* Bounds of the model.                                                    *)
(***************************************************************************)
\* longest free-form string handed to parseGermanNumber
MaxLen == 3
\* highest fee band whose boundaries are among the dispute values of a
\* single record
MaxBand == 3
\* highest fee band whose boundaries are among the dispute values of the
\* rows of a CSV file
MaxRowBand == 1
\* bands below the threshold of a single record's dispute value
MaxLowBand == 30
\* number of CSV rows read by main
NumRows == 2
\* number of calendar days the run may span
MaxDay == 2
\* most pages of a rendered invoice
MaxContentPages == 3
\* most pages of a letterhead file
MaxLetterheadPages == 2
\* number of calls of stampPDFOnBriefhead
NumCalls == 2
\* the comma-separated parts of a --lf specification
MaxParts == 2

(***************************************************************************)
(* JavaScript values.                                                      *)
(***************************************************************************)
Str(s) == [t |-> "string", s |-> s]
Undefined == [t |-> "undefined", s |-> <<>>]
Null == [t |-> "null", s |-> <<>>]
\* some non-zero number (a value that is truthy and not a string)
SomeNumber == [t |-> "number", s |-> <<>>]

IsString(v) == v.t = "string"
\* ToBoolean: undefined, null and the empty string are falsy
Truthy(v) == IF v.t = "string" THEN v.s # <<>> ELSE v.t = "number"

Digits == <<"0", "1", "2", "3", "4", "5", "6", "7", "8", "9">>
IsDigit(c) == \E i \in 1..10 : Digits[i] = c
DigitVal(c) == (CHOOSE i \in 1..10 : Digits[i] = c) - 1

RECURSIVE Pow10(_)
Pow10(n) == IF n = 0 THEN 1 ELSE 10 * Pow10(n - 1)

\* value of a sequence of digits read as a decimal integer
RECURSIVE DigitsVal(_)
DigitsVal(ds) ==
    IF ds = <<>> THEN 0
    ELSE 10 * DigitsVal(SubSeq(ds, 1, Len(ds) - 1)) + DigitVal(ds[Len(ds)])

\* length of the longest prefix of s made of digits
RECURSIVE DigitPrefixLen(_)
DigitPrefixLen(s) ==
    IF s = <<>> \/ ~IsDigit(Head(s)) THEN 0 ELSE 1 + DigitPrefixLen(Tail(s))

\* String.prototype.replace(/\./g, '')
RemoveDots(s) == SelectSeq(s, LAMBDA c : c # ".")

\* String.prototype.replace(',', '.'): only the first comma is replaced
ReplaceFirstComma(s) ==
    IF \E i \in 1..Len(s) : s[i] = ","
    THEN LET k == CHOOSE i \in 1..Len(s) :
                      s[i] = "," /\ \A j \in 1..(i - 1) : s[j] # ","
         IN  [i \in 1..Len(s) |-> IF i = k THEN "." ELSE s[i]]
    ELSE s

\* leading white space is skipped by parseFloat
RECURSIVE TrimLeft(_)
TrimLeft(s) == IF s # <<>> /\ Head(s) = " " THEN TrimLeft(Tail(s)) ELSE s

\* a JavaScript number: v whole cents and sub millionths of a euro below
\* them (both carry the sign), or NaN
NaN == [nan |-> TRUE, v |-> 0, sub |-> 0]
Number(n) == [nan |-> FALSE, v |-> n, sub |-> 0]
IsZero(x) == ~x.nan /\ x.v = 0 /\ x.sub = 0

(***************************************************************************)
(* The global parseFloat on strings without an exponent part: the longest  *)
(* prefix of the trimmed string of the form  [+-] digits [. digits]  or    *)
(* [+-] . digits  is converted, NaN if there is no such prefix.            *)
(***************************************************************************)
parseFloat(str) ==
    LET t == TrimLeft(str)
        signed == t # <<>> /\ Head(t) \in {"-", "+"}
        sign == IF t # <<>> /\ Head(t) = "-" THEN -1 ELSE 1
        u == IF signed THEN Tail(t) ELSE t
        ni == DigitPrefixLen(u)
        afterInt == SubSeq(u, ni + 1, Len(u))
        hasDot == afterInt # <<>> /\ Head(afterInt) = "."
        nf == IF hasDot THEN DigitPrefixLen(Tail(afterInt)) ELSE 0
        intPart == DigitsVal(SubSeq(u, 1, ni))
        fracDigits == IF hasDot THEN SubSeq(Tail(afterInt), 1, nf) ELSE <<>>
        \* the fraction in millionths of a euro
        micro == (DigitsVal(fracDigits) * 1000000) \div Pow10(nf)
    IN  IF ni = 0 /\ nf = 0 THEN NaN
        ELSE [nan |-> FALSE,
              v |-> sign * (intPart * 100 + micro \div 10000),
              sub |-> sign * (micro % 10000)]

\* csvParser.ts parseGermanNumber
parseGermanNumber(germanNumber) ==
    IF ~Truthy(germanNumber) \/ ~IsString(germanNumber) THEN Number(0)
    ELSE LET normalized == ReplaceFirstComma(RemoveDots(germanNumber.s))
             f == parseFloat(normalized)
         IN  IF f.nan \/ IsZero(f) THEN Number(0) ELSE f

(***************************************************************************)
(* String helpers used by csvParser.ts and calculator.ts.                  *)
(***************************************************************************)
\* String.prototype.startsWith
StartsWith(s, p) == Len(s) >= Len(p) /\ SubSeq(s, 1, Len(p)) = p

\* String.prototype.replace(p, r) with a string pattern: first occurrence
ReplaceFirst(s, p, r) ==
    LET hits == {i \in 1..(Len(s) - Len(p) + 1) : SubSeq(s, i, i + Len(p) - 1) = p}
    IN  IF hits = {} THEN s
        ELSE LET k == CHOOSE i \in hits : \A j \in hits : i <= j
             IN  SubSeq(s, 1, k - 1) \o r \o SubSeq(s, k + Len(p), Len(s))

RECURSIVE TrimRight(_)
TrimRight(s) ==
    IF s # <<>> /\ s[Len(s)] = " " THEN TrimRight(SubSeq(s, 1, Len(s) - 1)) ELSE s

\* String.prototype.trim
Trim(s) == TrimRight(TrimLeft(s))

\* String.prototype.padStart(n, c) for a one-character filler
RECURSIVE PadStart(_, _, _)
PadStart(s, n, c) == IF Len(s) >= n THEN s ELSE PadStart(<<c>> \o s, n, c)

\* String.prototype.toUpperCase on the letters the records use
UpperChar(c) ==
    CASE c = "a" -> "A" [] c = "c" -> "C" [] c = "d" -> "D" [] c = "h" -> "H"
      [] c = "t" -> "T" [] OTHER -> c
ToUpperCase(s) == [i \in 1..Len(s) |-> UpperChar(s[i])]

\* v || fallback
OrElse(v, fallback) == IF Truthy(v) THEN v ELSE fallback

(***************************************************************************)
(* csvParser.ts                                                            *)
(***************************************************************************)
\* formatGermanDate() without an argument: the current date, a day of
\* January 2026
formatGermanDate(day) == Str(<<Digits[day + 1], ".", " Januar 2026">>)

\* one person of buildRecipientName: `${title} ${firstName} ${nachname}`.trim()
RecipientPart(vorname, nachname) ==
    LET title == IF StartsWith(vorname, <<"D", "r", ".">>) THEN <<"D", "r", ".">> ELSE <<>>
        firstName == Trim(ReplaceFirst(vorname, <<"D", "r", ".">>, <<>>))
    IN  Trim(title \o <<" ">> \o firstName \o <<" ">> \o nachname)

RECURSIVE JoinUnd(_)
JoinUnd(parts) ==
    IF parts = <<>> THEN <<>>
    ELSE IF Len(parts) = 1 THEN parts[1]
    ELSE parts[1] \o <<" ", "u", "n", "d", " ">> \o JoinUnd(Tail(parts))

buildRecipientName(data) ==
    LET p1 == IF Truthy(data.Vorname1) /\ Truthy(data.Nachname1)
              THEN <<RecipientPart(data.Vorname1.s,
                         (IF StartsWith(data.Nachname1.s, <<"c", "/", "o">>)
                          THEN <<"\n">> ELSE <<>>) \o data.Nachname1.s)>>
              ELSE <<>>
        p2 == IF Truthy(data.Vorname2) /\ Truthy(data.Nachname2)
              THEN <<RecipientPart(data.Vorname2.s, data.Nachname2.s)>>
              ELSE <<>>
        p3 == IF Truthy(data.Vorname3) /\ Truthy(data.Nachname3)
              THEN <<RecipientPart(data.Vorname3.s, data.Nachname3.s)>>
              ELSE <<>>
        parts == p1 \o p2 \o p3
    IN  IF Len(parts) = 2
        THEN Str(parts[1] \o <<" ", "u", "n", "d", " ">> \o parts[2])
        ELSE IF Len(parts) = 3
        THEN Str(parts[1] \o <<",", " ">> \o parts[2]
                     \o <<" ", "u", "n", "d", " ">> \o parts[3])
        ELSE Str(JoinUnd(parts))

buildAnrede(data) ==
    LET anrede1 == OrElse(data.Anrede, Str(<<>>))
        anrede2 == OrElse(data.Anrede2, Str(<<>>))
        anrede3 == OrElse(data.Anrede3, Str(<<>>))
    IN  IF Truthy(anrede1) /\ Truthy(anrede2)
        THEN Str(anrede1.s \o <<",", " ">> \o anrede2.s
                     \o <<" ", "u", "n", "d", " ">> \o anrede3.s)
        ELSE IF Truthy(anrede1) /\ Truthy(anrede2)
        THEN Str(anrede1.s \o <<" ", "u", "n", "d", " ">> \o anrede2.s)
        ELSE anrede1

(***************************************************************************)
(* config.ts                                                               *)
(***************************************************************************)
\* config.taxRate = 0.19, as hundredths
taxRatePercent == 19

senderInfo ==
    [senderName |-> "Siegmann | Hoeger",
     senderStreet |-> "Huebschstrasse 21",
     senderZipCity |-> "76131 Karlsruhe",
     ustId |-> "DE455775429",
     iban |-> "DE54 6604 0018 0366 0560 00",
     unterschrift |-> "Prof. Dr. Siegmann"]

caseDetails ==
    [leistungszeit |-> "06.03.-25.11.2025",
     gzNumber |-> "SH 072/25",
     partei1 |-> "Dipl.-Kfm. Ebert u.a.",
     partei2 |-> "Dr. Braun u.a."]

defaultCalculationValues ==
    [verfahrensgebuehr |-> 133260,
     terminsgebuehr |-> 122964,
     einigungsgebuehr |-> 30741,
     auslagenpauschale |-> 2000,
     kopien |-> 18000,
     telekommunikation |-> 12000,
     gerichtskosten |-> 45000]

(***************************************************************************)
(* Number helpers.                                                         *)
(***************************************************************************)
\* Math.ceil(a / b) for b > 0
ceilDiv(a, b) == -((-a) \div b)

\* an amount of whole cents inside a calculation, in 1/100 cent
Fine(cents) == cents * 100

\* Math.floor(x * 100) / 100 in place of toFixed(2)
toFixed2_truncate(x) ==
    LET a == IF x < 0 THEN -x ELSE x
        r == a \div 100
    IN  IF x < 0 THEN -r ELSE r

\* parseFloat(x.toFixed(2)) of an amount x in 1/100 cent: the nearest whole
\* number of cents, the larger in magnitude of two equally near ones
toFixed2(x) ==
    LET a == IF x < 0 THEN -x ELSE x
        r == (a + 50) \div 100
    IN  IF x < 0 THEN -r ELSE r

(***************************************************************************)
(* calculator.ts                                                           *)
(***************************************************************************)
getCountryName(countryCode) ==
    IF ~IsString(countryCode) THEN Null
    ELSE LET code == ToUpperCase(Trim(countryCode.s))
         IN  CASE code = <<"C", "H">> -> Str(<<"Schweiz">>)
               [] code = <<"A", "T">> -> Str(<<"Oesterreich">>)
               [] code = <<"P", "T">> -> Str(<<"Portugal">>)
               [] code = <<"B", "G">> -> Str(<<"Bulgarien">>)
               [] code = <<"L", "U">> -> Str(<<"Luxemburg">>)
               [] OTHER -> Null

calculateDisputeValues(streitwertKlage) ==
    [einzelStreitwert |-> streitwertKlage]

calculateFees_floor(gesamtStreitwert, einzelStreitwert) ==
    LET faktor == (gesamtStreitwert - 500000 * 100) \div (50000 * 100)
        zweiKommaDreiGebuehr == (3539 + faktor * 165) * 23 * 1000
    IN  [zweiKommaDreiGebuehr |-> toFixed2(zweiKommaDreiGebuehr),
         verfahrensgebuehr |-> defaultCalculationValues.verfahrensgebuehr,
         terminsgebuehr |-> defaultCalculationValues.terminsgebuehr,
         einigungsgebuehr |-> defaultCalculationValues.einigungsgebuehr]

calculateFees_round(gesamtStreitwert, einzelStreitwert) ==
    LET faktor == (2 * (gesamtStreitwert - 500000 * 100) + 50000 * 100)
                      \div (2 * 50000 * 100)
        zweiKommaDreiGebuehr == (3539 + faktor * 165) * 23 * 1000
    IN  [zweiKommaDreiGebuehr |-> toFixed2(zweiKommaDreiGebuehr),
         verfahrensgebuehr |-> defaultCalculationValues.verfahrensgebuehr,
         terminsgebuehr |-> defaultCalculationValues.terminsgebuehr,
         einigungsgebuehr |-> defaultCalculationValues.einigungsgebuehr]

\* the band kept from falling below 0, as if by Math.max(0, ...)
calculateFees_clamped(gesamtStreitwert, einzelStreitwert) ==
    LET raw == ceilDiv(gesamtStreitwert - 500000 * 100, 50000 * 100)
        faktor == IF raw < 0 THEN 0 ELSE raw
        zweiKommaDreiGebuehr == (3539 + faktor * 165) * 23 * 1000
    IN  [zweiKommaDreiGebuehr |-> toFixed2(zweiKommaDreiGebuehr),
         verfahrensgebuehr |-> defaultCalculationValues.verfahrensgebuehr,
         terminsgebuehr |-> defaultCalculationValues.terminsgebuehr,
         einigungsgebuehr |-> defaultCalculationValues.einigungsgebuehr]

calculateFees(gesamtStreitwert, einzelStreitwert) ==
    LET faktor == ceilDiv(gesamtStreitwert - 500000 * 100, 50000 * 100)
        \* (3539 + faktor * 165) * 2.3 euro
        zweiKommaDreiGebuehr == (3539 + faktor * 165) * 23 * 1000
    IN  [zweiKommaDreiGebuehr |-> toFixed2(zweiKommaDreiGebuehr),
         verfahrensgebuehr |-> defaultCalculationValues.verfahrensgebuehr,
         terminsgebuehr |-> defaultCalculationValues.terminsgebuehr,
         einigungsgebuehr |-> defaultCalculationValues.einigungsgebuehr]

calculateExpenses_ofFee(einzelStreitwert) ==
    LET verfahrensgebuehr == calculateFees(einzelStreitwert, einzelStreitwert).zweiKommaDreiGebuehr
        erhoehungsgebuehrOld == verfahrensgebuehr * 30
    IN  [pauschale |-> defaultCalculationValues.auslagenpauschale,
         erhoehungsgebuehrOld |-> toFixed2(erhoehungsgebuehrOld)]

calculateExpenses(einzelStreitwert) ==
    LET verfahrensgebuehr == defaultCalculationValues.verfahrensgebuehr
        \* verfahrensgebuehr * 0.3
        erhoehungsgebuehrOld == verfahrensgebuehr * 30
    IN  [pauschale |-> defaultCalculationValues.auslagenpauschale,
         erhoehungsgebuehrOld |-> toFixed2(erhoehungsgebuehrOld)]

getCashExpenses ==
    [kopien |-> defaultCalculationValues.kopien,
     telekommunikation |-> defaultCalculationValues.telekommunikation,
     gerichtskosten |-> defaultCalculationValues.gerichtskosten]

\* the record performInvoiceCalculations returns, from its local amounts
\* (in 1/100 cent)
Calculations(s1, s2, s3, old, prop, erh, netto, mwst, brutto) ==
    [gesamtRechnungsbetragOld |-> toFixed2(old),
     proportionalerBetrag |-> toFixed2(prop),
     erhoehungsgebuehrOld |-> erh,
     summe1 |-> toFixed2(s1),
     summe2 |-> toFixed2(s2),
     summe3 |-> toFixed2(s3),
     gesamtbetragNetto |-> toFixed2(netto),
     mehrwertsteuer |-> toFixed2(mwst),
     gesamtbetragBrutto |-> toFixed2(brutto)]

\* the earlier pipeline: the cash outlays are part of the total
performInvoiceCalculations_withOutlays(gebuehren, auslagen, barauslagen, disputeValue) ==
    LET summe1 == Fine(gebuehren.zweiKommaDreiGebuehr)
        summe2 == Fine(auslagen.pauschale + auslagen.erhoehungsgebuehrOld)
        summe3 == Fine(barauslagen.kopien + barauslagen.telekommunikation
                           + barauslagen.gerichtskosten)
        gesamtRechnungsbetragOld == summe1 + Fine(auslagen.pauschale)
        proportionalerBetrag == gesamtRechnungsbetragOld
        gesamtbetragNetto == proportionalerBetrag + Fine(auslagen.erhoehungsgebuehrOld) + summe3
        mehrwertsteuer == (gesamtbetragNetto \div 100) * taxRatePercent
        gesamtbetragBrutto == gesamtbetragNetto + mehrwertsteuer
    IN  Calculations(summe1, summe2, summe3, gesamtRechnungsbetragOld,
                     proportionalerBetrag, auslagen.erhoehungsgebuehrOld,
                     gesamtbetragNetto, mehrwertsteuer, gesamtbetragBrutto)

\* summe1 as in the commented-out code: the three baseline fees
performInvoiceCalculations_baselineFees(gebuehren, auslagen, barauslagen, disputeValue) ==
    LET summe1 == Fine(gebuehren.verfahrensgebuehr + gebuehren.terminsgebuehr
                           + gebuehren.einigungsgebuehr)
        summe2 == Fine(auslagen.pauschale + auslagen.erhoehungsgebuehrOld)
        summe3 == Fine(barauslagen.kopien + barauslagen.telekommunikation
                           + barauslagen.gerichtskosten)
        gesamtRechnungsbetragOld == summe1 + Fine(auslagen.pauschale)
        proportionalerBetrag == gesamtRechnungsbetragOld
        gesamtbetragNetto == proportionalerBetrag + Fine(auslagen.erhoehungsgebuehrOld)
        mehrwertsteuer == (gesamtbetragNetto \div 100) * taxRatePercent
        gesamtbetragBrutto == gesamtbetragNetto + mehrwertsteuer
    IN  Calculations(summe1, summe2, summe3, gesamtRechnungsbetragOld,
                     proportionalerBetrag, auslagen.erhoehungsgebuehrOld,
                     gesamtbetragNetto, mehrwertsteuer, gesamtbetragBrutto)

\* the gross total taken from the amount before the surcharge
performInvoiceCalculations_grossOfProportional(gebuehren, auslagen, barauslagen, disputeValue) ==
    LET summe1 == Fine(gebuehren.zweiKommaDreiGebuehr)
        summe2 == Fine(auslagen.pauschale + auslagen.erhoehungsgebuehrOld)
        summe3 == Fine(barauslagen.kopien + barauslagen.telekommunikation
                           + barauslagen.gerichtskosten)
        gesamtRechnungsbetragOld == summe1 + Fine(auslagen.pauschale)
        proportionalerBetrag == gesamtRechnungsbetragOld
        gesamtbetragNetto == proportionalerBetrag + Fine(auslagen.erhoehungsgebuehrOld)
        mehrwertsteuer == (gesamtbetragNetto \div 100) * taxRatePercent
        gesamtbetragBrutto == proportionalerBetrag + mehrwertsteuer
    IN  Calculations(summe1, summe2, summe3, gesamtRechnungsbetragOld,
                     proportionalerBetrag, auslagen.erhoehungsgebuehrOld,
                     gesamtbetragNetto, mehrwertsteuer, gesamtbetragBrutto)

\* a total that is never negative: a negative one is replaced by 0
performInvoiceCalculations_nonNegative(gebuehren, auslagen, barauslagen, disputeValue) ==
    LET summe1 == Fine(gebuehren.zweiKommaDreiGebuehr)
        summe2 == Fine(auslagen.pauschale + auslagen.erhoehungsgebuehrOld)
        summe3 == Fine(barauslagen.kopien + barauslagen.telekommunikation
                           + barauslagen.gerichtskosten)
        gesamtRechnungsbetragOld == summe1 + Fine(auslagen.pauschale)
        proportionalerBetrag == gesamtRechnungsbetragOld
        gesamtbetragNetto == proportionalerBetrag + Fine(auslagen.erhoehungsgebuehrOld)
        mehrwertsteuer == (gesamtbetragNetto \div 100) * taxRatePercent
        gesamtbetragBrutto == gesamtbetragNetto + mehrwertsteuer
    IN  Calculations(summe1, summe2, summe3, gesamtRechnungsbetragOld,
                     proportionalerBetrag, auslagen.erhoehungsgebuehrOld,
                     gesamtbetragNetto, mehrwertsteuer,
                     IF gesamtbetragBrutto < 0 THEN 0 ELSE gesamtbetragBrutto)

performInvoiceCalculations(gebuehren, auslagen, barauslagen, disputeValue) ==
    LET summe1 == Fine(gebuehren.zweiKommaDreiGebuehr)
        summe2 == Fine(auslagen.pauschale + auslagen.erhoehungsgebuehrOld)
        summe3 == Fine(barauslagen.kopien + barauslagen.telekommunikation
                           + barauslagen.gerichtskosten)
        gesamtRechnungsbetragOld == summe1 + Fine(auslagen.pauschale)
        proportionalerBetrag == gesamtRechnungsbetragOld
        gesamtbetragNetto == proportionalerBetrag + Fine(auslagen.erhoehungsgebuehrOld)
        \* gesamtbetragNetto * config.taxRate; gesamtbetragNetto is a sum of
        \* whole cents
        mehrwertsteuer == (gesamtbetragNetto \div 100) * taxRatePercent
        gesamtbetragBrutto == gesamtbetragNetto + mehrwertsteuer
    IN  Calculations(summe1, summe2, summe3, gesamtRechnungsbetragOld,
                     proportionalerBetrag, auslagen.erhoehungsgebuehrOld,
                     gesamtbetragNetto, mehrwertsteuer, gesamtbetragBrutto)

TypeError == [error |-> "TypeError"]
Threw(r) == "error" \in DOMAIN r

\* calculateInvoiceData from the fees on: expenses, calculations and the
\* invoice data object
InvoiceDataOf(csvData, disputeValue, gebuehren, datum) ==
    LET gesamtStreitwert == parseGermanNumber(csvData.Gesamtstreitwert).v
        gesamtRechnungsbetrag == parseGermanNumber(csvData.Gesamtrechnungsbetrag).v
        anteil == parseGermanNumber(csvData.Anteil).v
        einzelRechnungsbetrag == parseGermanNumber(csvData.Einzelrechnungsbetrag).v
        erhoehungsgebuehr == parseGermanNumber(csvData.Erhoehungsgebuehr).v
        zwischensumme == parseGermanNumber(csvData.Zwischensumme).v
        umsatzsteuer == parseGermanNumber(csvData.Umsatzsteuer).v
        summa == parseGermanNumber(csvData.Summa).v
        auslagen == calculateExpenses(disputeValue.einzelStreitwert)
        barauslagen == getCashExpenses
        calculations ==
            performInvoiceCalculations(gebuehren, auslagen, barauslagen, disputeValue)
    IN  IF ~IsString(csvData.Rechnungsnummer) THEN TypeError
        ELSE calculations @@ disputeValue @@ senderInfo @@
             [empfaengerAnrede |-> buildAnrede(csvData),
              name |-> buildRecipientName(csvData),
              strasse |-> csvData.Strasse,
              plz |-> csvData.PLZ,
              ort |-> csvData.Ort,
              land |-> csvData.Land,
              landName |-> getCountryName(csvData.Land),
              gesamtStreitwert |-> gesamtStreitwert,
              gesamtRechnungsbetrag |-> gesamtRechnungsbetrag,
              anteil |-> anteil,
              einzelRechnungsbetrag |-> einzelRechnungsbetrag,
              erhoehungsgebuehr |-> erhoehungsgebuehr,
              zwischensumme |-> zwischensumme,
              umsatzsteuer |-> umsatzsteuer,
              summa |-> summa,
              rechnungsNummer |->
                  Str(PadStart(csvData.Rechnungsnummer.s, 4, "0") \o <<"/", "2", "6">>),
              datum |-> datum,
              gzNumber |-> caseDetails.gzNumber,
              azTilp |-> OrElse(csvData.AzTILP, Undefined),
              leistungszeit |-> caseDetails.leistungszeit,
              mandant |-> buildRecipientName(csvData),
              partei1 |-> caseDetails.partei1,
              partei2 |-> caseDetails.partei2,
              lfNr |-> csvData.LfNr,
              nachname1 |-> csvData.Nachname1,
              nachname2 |-> OrElse(csvData.Nachname2, Undefined),
              nachname3 |-> OrElse(csvData.Nachname3, Undefined),
              ErbengemeinschaftZahlWeitereMitglieder |->
                  OrElse(csvData.ErbengemeinschaftZahl, Undefined),
              ErbengemeinschaftNamenWeitereMitglieder |->
                  OrElse(csvData.ErbengemeinschaftNamen, Undefined),
              hasSecondRecipient |-> Truthy(csvData.Vorname2) /\ Truthy(csvData.Nachname2),
              hasThirdRecipient |-> Truthy(csvData.Vorname3) /\ Truthy(csvData.Nachname3),
              gebuehren |-> gebuehren,
              auslagen |-> auslagen,
              barauslagen |-> barauslagen]

\* the fee taken from the 'Gesamtstreitwert' column
calculateInvoiceData_ofGesamtstreitwert(csvData) ==
    LET streitwertKlage == parseGermanNumber(csvData.StreitwertKlage).v
        gesamtStreitwert == parseGermanNumber(csvData.Gesamtstreitwert).v
        disputeValue == calculateDisputeValues(streitwertKlage)
        gebuehren == calculateFees(gesamtStreitwert, disputeValue.einzelStreitwert)
    IN  InvoiceDataOf(csvData, disputeValue, gebuehren, Str(<<"2", ".", " Januar 2026">>))

\* the date taken from the clock, as in the commented-out formatGermanDate()
calculateInvoiceData_currentDate(csvData) ==
    LET streitwertKlage == parseGermanNumber(csvData.StreitwertKlage).v
        disputeValue == calculateDisputeValues(streitwertKlage)
        gebuehren == calculateFees(disputeValue.einzelStreitwert, disputeValue.einzelStreitwert)
    IN  InvoiceDataOf(csvData, disputeValue, gebuehren, formatGermanDate(today))

calculateInvoiceData(csvData) ==
    LET streitwertKlage == parseGermanNumber(csvData.StreitwertKlage).v
        disputeValue == calculateDisputeValues(streitwertKlage)
        gebuehren == calculateFees(disputeValue.einzelStreitwert, disputeValue.einzelStreitwert)
    IN  InvoiceDataOf(csvData, disputeValue, gebuehren, Str(<<"2", ".", " Januar 2026">>))

\* validateInvoiceData was not called
NotValidated == [called |-> FALSE]

\* the fields validateInvoiceData requires, in its order
requiredFields == <<"name", "strasse", "plz", "ort", "gesamtbetragBrutto", "datum">>

\* !invoiceData[field]
Missing(invoiceData, field) ==
    IF field = "gesamtbetragBrutto" THEN invoiceData[field] = 0
    ELSE ~Truthy(invoiceData[field])

\* the error for the last missing field
validateInvoiceData_lastMissing(invoiceData) ==
    IF \E k \in 1..Len(requiredFields) : Missing(invoiceData, requiredFields[k])
    THEN LET k == CHOOSE j \in 1..Len(requiredFields) :
                      /\ Missing(invoiceData, requiredFields[j])
                      /\ \A h \in (j + 1)..Len(requiredFields) :
                             ~Missing(invoiceData, requiredFields[h])
         IN  [error |-> <<"Missing required field: ", requiredFields[k]>>]
    ELSE [value |-> TRUE]

\* validateInvoiceData: true, or the error for the first missing field
validateInvoiceData(invoiceData) ==
    IF \E k \in 1..Len(requiredFields) : Missing(invoiceData, requiredFields[k])
    THEN LET k == CHOOSE j \in 1..Len(requiredFields) :
                      /\ Missing(invoiceData, requiredFields[j])
                      /\ \A h \in 1..(j - 1) : ~Missing(invoiceData, requiredFields[h])
         IN  [error |-> <<"Missing required field: ", requiredFields[k]>>]
    ELSE [value |-> TRUE]

(***************************************************************************)
(* The input records.                                                      *)
(***************************************************************************)
RECURSIVE NatDigits(_)
\* the decimal digits of a natural number
NatDigits(n) ==
    IF n < 10 THEN <<Digits[n + 1]>>
    ELSE NatDigits(n \div 10) \o <<Digits[(n % 10) + 1]>>

RECURSIVE Grouped(_)
\* digits with a "." before every group of three, as a spreadsheet writes them
Grouped(ds) ==
    IF Len(ds) <= 3 THEN ds
    ELSE Grouped(SubSeq(ds, 1, Len(ds) - 3)) \o <<".">> \o SubSeq(ds, Len(ds) - 2, Len(ds))

\* an amount of c cents in German format, e.g. 60000001 as "600.000,01"
GermanAmount(c) ==
    LET a == IF c < 0 THEN -c ELSE c
    IN  Str((IF c < 0 THEN <<"-">> ELSE <<>>) \o Grouped(NatDigits(a \div 100))
            \o <<",", Digits[((a % 100) \div 10) + 1], Digits[(a % 10) + 1]>>)

\* dispute values in cents: at, one cent beside and a quarter, a half and
\* three quarters of a band above every band boundary up to MaxBand, zero,
\* negative amounts: where the fee changes its sign and below, and at and
\* one cent above every band boundary down to MaxLowBand bands below the
\* threshold, among them where the total changes its sign
DisputeCents ==
    {50000000 + k * 5000000 + d :
        k \in (-2)..MaxBand, d \in {-1, 0, 1, 1250000, 2500000, 3750000}}
        \cup {0, -59999999, -60000000, -70000000}
        \cup {50000000 - k * 5000000 + d : k \in 3..MaxLowBand, d \in {0, 1}}

\* what is not an amount in the 'Streitwert Klage' column
MalformedStrings ==
    {Str(<<>>), Str(<<"x">>),
     Str(<<"6", "0", "0", ".", "0", "0", "0", " ", "E", "U", "R">>),
     Undefined}

\* what the 'Streitwert Klage' column of a single record may hold
StreitwertStrings ==
    {GermanAmount(c) : c \in DisputeCents}
        \cup {Str(<<"6", "0", "0", "0", "0", "0">>)} \cup MalformedStrings

\* what the 'Streitwert Klage' column of the rows of a file may hold: the
\* band boundaries up to MaxRowBand and one cent above them, a negative
\* amount, the empty string and a string that is no number
RowStreitwertStrings ==
    {GermanAmount(50000000 + k * 5000000 + d) : k \in 0..MaxRowBand, d \in {0, 1}}
        \cup {GermanAmount(-70000000), Str(<<>>), Str(<<"x">>)}

BaseRecord ==
    [LfNr |-> Str(<<"1">>),
     AzTILP |-> Str(<<"A", "1">>),
     Anrede |-> Str(<<"Herrn">>),
     Vorname1 |-> Str(<<"D", "r", ".", " ", "A">>),
     Nachname1 |-> Str(<<"B">>),
     Anrede2 |-> Str(<<>>),
     Vorname2 |-> Str(<<>>),
     Nachname2 |-> Str(<<>>),
     Anrede3 |-> Str(<<>>),
     Vorname3 |-> Str(<<>>),
     Nachname3 |-> Str(<<>>),
     Strasse |-> Str(<<"Weg 1">>),
     PLZ |-> Str(<<"76131">>),
     Ort |-> Str(<<"Karlsruhe">>),
     Land |-> Str(<<"D">>),
     StreitwertKlage |-> GermanAmount(60000000),
     Gesamtstreitwert |-> GermanAmount(120000000),
     Gesamtrechnungsbetrag |-> GermanAmount(2626434),
     Anteil |-> Str(<<"0", ",", "5">>),
     Einzelrechnungsbetrag |-> GermanAmount(1313217),
     Erhoehungsgebuehr |-> GermanAmount(39978),
     Zwischensumme |-> GermanAmount(1353195),
     Umsatzsteuer |-> GermanAmount(257107),
     Summa |-> GermanAmount(1610302),
     Rechnungsnummer |-> Str(<<"7">>),
     ErbengemeinschaftZahl |-> Str(<<>>),
     ErbengemeinschaftNamen |-> Str(<<>>)]

\* the base record with another column than the dispute value changed
OtherRecords ==
    {[BaseRecord EXCEPT !.Rechnungsnummer = Undefined],
     [BaseRecord EXCEPT !.Nachname1 = Str(<<" ">>)],
     [BaseRecord EXCEPT !.Gesamtstreitwert = GermanAmount(55000000)],
     [BaseRecord EXCEPT !.Land = Str(<<"c", "h">>), !.LfNr = Str(<<"2">>),
                        !.Anrede2 = Str(<<"Frau">>),
                        !.Vorname2 = Str(<<"C">>), !.Nachname2 = Str(<<"B">>)]}

\* the records a single call of calculateInvoiceData is checked on
CalcRecords ==
    {[BaseRecord EXCEPT !.StreitwertKlage = s] : s \in StreitwertStrings}
        \cup OtherRecords

\* the rows a CSV file may hold
CSVRecords ==
    {[BaseRecord EXCEPT !.StreitwertKlage = s] : s \in RowStreitwertStrings}
        \cup OtherRecords

Alphabet == {"0", "1", "5", ".", ",", "-", "x", " "}

\* what parseGermanNumber may be called with
ParseInputs ==
    {Str(s) : s \in UNION {[1..n -> Alphabet] : n \in 0..MaxLen}}
        \cup {Undefined, Null, SomeNumber}

(***************************************************************************)
(* PDF documents.  A page has a width, a height and a content stream, the  *)
(* sequence ops of what is drawn on it: the page's own marks (text), or    *)
(* embedded pages drawn at a place and size.  A buffer is the bytes of a   *)
(* document (ok, with its pages) or bytes PDFDocument.load rejects.        *)
(***************************************************************************)
Pdf(pages) == [ok |-> TRUE, pages |-> pages]
Corrupt == [ok |-> FALSE, pages |-> <<>>]

\* page k of a rendered invoice: page.pdf({format: 'A4'}), 595 x 842 points
ContentPage(k) == [width |-> 595, height |-> 842, ops |-> <<[text |-> k]>>]

\* the document page.pdf returns for an invoice of n pages
ContentDoc(n) == Pdf([k \in 1..n |-> ContentPage(k)])

\* page k of a letterhead; every page has a size of its own, none that of
\* a rendered page
LetterheadPage(k) ==
    [width |-> 612 + k, height |-> 792 - k, ops |-> <<[text |-> 100 + k]>>]

\* a letterhead page without a content stream
BlankPage == [width |-> 600, height |-> 800, ops |-> <<>>]

LetterheadDoc(n) == Pdf([k \in 1..n |-> LetterheadPage(k)])

\* a letterhead of n pages whose page b has no content stream
BlankLetterheadDoc(n, b) ==
    Pdf([k \in 1..n |-> IF k = b THEN BlankPage ELSE LetterheadPage(k)])

\* what page.pdf may return: at least one page
ContentDocs == {ContentDoc(n) : n \in 1..MaxContentPages}

\* a file, or no file at a path
File(bytes) == [exists |-> TRUE, bytes |-> bytes]
NoFile == [exists |-> FALSE, bytes |-> Corrupt]

\* what may be at config.briefheadPdf
LetterheadFiles ==
    {File(LetterheadDoc(n)) : n \in 0..MaxLetterheadPages}
        \cup UNION {{File(BlankLetterheadDoc(n, b)) : b \in 1..n} :
                        n \in 1..MaxLetterheadPages}
        \cup {File(Corrupt), NoFile}

Min(a, b) == IF a < b THEN a ELSE b

(***************************************************************************)
(* pdfGenerator.ts stampPDFOnBriefhead.  A call has the local variables of *)
(* the function; its steps are the load of the two documents, one          *)
(* iteration of the loop over the pages, and the save of the result.  The  *)
(* caller waits for the call: a step leaves every other variable as it is. *)
(***************************************************************************)
CallIds == 1..NumCalls

\* no call
IdleCall ==
    [phase |-> "idle", generatedPdfBuffer |-> Corrupt,
     briefkopfPages |-> <<>>, generatedPages |-> <<>>, finalDoc |-> <<>>,
     i |-> 0, result |-> Corrupt, error |-> ""]

\* stampPDFOnBriefhead(buffer, config.briefheadPdf) is called
CalledWith(buffer) == [IdleCall EXCEPT !.phase = "called", !.generatedPdfBuffer = buffer]

\* the call rejects with an error
Rejected(call, message) == [call EXCEPT !.phase = "threw", !.error = message]

\* the loop over the pages begun at i = 1
StampLoad_fromOne(c) ==
    /\ stamp[c].phase = "called"
    /\ LET call == stamp[c]
       IN  stamp' = [stamp EXCEPT ![c] =
               IF ~briefheadFile.exists
               THEN Rejected(call, "ENOENT: no such file or directory")
               ELSE IF ~briefheadFile.bytes.ok \/ ~call.generatedPdfBuffer.ok
               THEN Rejected(call, "Failed to parse PDF document")
               ELSE [call EXCEPT !.phase = "loop",
                                 !.briefkopfPages = briefheadFile.bytes.pages,
                                 !.generatedPages = call.generatedPdfBuffer.pages,
                                 !.finalDoc = <<>>,
                                 !.i = 1]]
    /\ UNCHANGED <<csvRows, invoices, pc, today, parseArg, parsed, validated, batchVars, briefheadFile>>

\* fs.readFileSync and the two PDFDocument.load, PDFDocument.create and
\* getPages
StampLoad(c) ==
    /\ stamp[c].phase = "called"
    /\ LET call == stamp[c]
       IN  stamp' = [stamp EXCEPT ![c] =
               IF ~briefheadFile.exists
               THEN Rejected(call, "ENOENT: no such file or directory")
               ELSE IF ~briefheadFile.bytes.ok \/ ~call.generatedPdfBuffer.ok
               THEN Rejected(call, "Failed to parse PDF document")
               ELSE [call EXCEPT !.phase = "loop",
                                 !.briefkopfPages = briefheadFile.bytes.pages,
                                 !.generatedPages = call.generatedPdfBuffer.pages,
                                 !.finalDoc = <<>>,
                                 !.i = 0]]
    /\ UNCHANGED <<csvRows, invoices, pc, today, parseArg, parsed, validated, batchVars, briefheadFile>>

\* PDFDocument.embedPage: the page with its bounding box; a page without a
\* content stream cannot be embedded
CanEmbed(page) == page.ops # <<>>
embedPage(page) == [page |-> page, width |-> page.width, height |-> page.height]

\* PDFPage.drawPage(embedded, {x, y, width, height})
drawPage(embedded, x, y, width, height) ==
    [page |-> embedded.page, x |-> x, y |-> y, width |-> width, height |-> height]

\* the letterhead pages taken in turn
BriefkopfPageIndex_alternating(i, pageCount) == Min(i % 2, pageCount - 1)

\* the continuation page taken without the clamp to the last page
BriefkopfPageIndex_unclamped(i, pageCount) == IF i = 0 THEN 0 ELSE 1

\* the letterhead page index of content page i
BriefkopfPageIndex(i, pageCount) == IF i = 0 THEN 0 ELSE Min(1, pageCount - 1)

\* the content page stretched to the size of the letterhead page
FinalPage_scaled(briefkopfTemplatePage, generatedPage) ==
    LET embeddedBriefkopf == embedPage(briefkopfTemplatePage)
        embeddedContent == embedPage(generatedPage)
    IN  [width |-> embeddedBriefkopf.width,
         height |-> embeddedBriefkopf.height,
         ops |-> <<drawPage(embeddedBriefkopf, 0, 0,
                            embeddedBriefkopf.width, embeddedBriefkopf.height),
                   drawPage(embeddedContent, 0, 0,
                            embeddedBriefkopf.width, embeddedBriefkopf.height)>>]

\* the page the loop appends for content page generatedPage on the
\* letterhead page briefkopfTemplatePage
FinalPage(briefkopfTemplatePage, generatedPage) ==
    LET embeddedBriefkopf == embedPage(briefkopfTemplatePage)
        embeddedContent == embedPage(generatedPage)
    IN  [width |-> embeddedBriefkopf.width,
         height |-> embeddedBriefkopf.height,
         ops |-> <<drawPage(embeddedBriefkopf, 0, 0,
                            embeddedBriefkopf.width, embeddedBriefkopf.height),
                   drawPage(embeddedContent, 0, 0,
                            embeddedContent.width, embeddedContent.height)>>]

\* the letterhead page and the content page appended as two pages
StampPage_twoPages(c) ==
    /\ stamp[c].phase = "loop"
    /\ stamp[c].i < Len(stamp[c].generatedPages)
    /\ LET call == stamp[c]
           generatedPage == call.generatedPages[call.i + 1]
           briefkopfPageIndex == BriefkopfPageIndex(call.i, Len(call.briefkopfPages))
           exists == briefkopfPageIndex + 1 \in 1..Len(call.briefkopfPages)
       IN  stamp' = [stamp EXCEPT ![c] =
               IF ~exists
               THEN Rejected(call, "Briefkopf PDF does not have a page at index")
               ELSE IF ~CanEmbed(call.briefkopfPages[briefkopfPageIndex + 1])
                       \/ ~CanEmbed(generatedPage)
               THEN Rejected(call, "Can't embed page with missing Contents")
               ELSE [call EXCEPT
                        !.finalDoc = call.finalDoc \o
                            <<call.briefkopfPages[briefkopfPageIndex + 1], generatedPage>>,
                        !.i = call.i + 1]]
    /\ UNCHANGED <<csvRows, invoices, pc, today, parseArg, parsed, validated, batchVars, briefheadFile>>

\* the loop left at a page that cannot be composed, and what is composed
\* so far returned
StampPage_break(c) ==
    /\ stamp[c].phase = "loop"
    /\ stamp[c].i < Len(stamp[c].generatedPages)
    /\ LET call == stamp[c]
           generatedPage == call.generatedPages[call.i + 1]
           briefkopfPageIndex == BriefkopfPageIndex(call.i, Len(call.briefkopfPages))
           exists == briefkopfPageIndex + 1 \in 1..Len(call.briefkopfPages)
       IN  stamp' = [stamp EXCEPT ![c] =
               IF ~exists \/ ~CanEmbed(call.briefkopfPages[briefkopfPageIndex + 1])
                       \/ ~CanEmbed(generatedPage)
               THEN [call EXCEPT !.phase = "returned", !.result = Pdf(call.finalDoc)]
               ELSE [call EXCEPT
                        !.finalDoc = Append(call.finalDoc,
                            FinalPage(call.briefkopfPages[briefkopfPageIndex + 1],
                                      generatedPage)),
                        !.i = call.i + 1]]
    /\ UNCHANGED <<csvRows, invoices, pc, today, parseArg, parsed, validated, batchVars, briefheadFile>>

\* the output document kept in a variable of the module: a page is appended
\* to the document of every call that is in its loop
StampPage_sharedDoc(c) ==
    /\ stamp[c].phase = "loop"
    /\ stamp[c].i < Len(stamp[c].generatedPages)
    /\ LET call == stamp[c]
           generatedPage == call.generatedPages[call.i + 1]
           briefkopfPageIndex == BriefkopfPageIndex(call.i, Len(call.briefkopfPages))
           exists == briefkopfPageIndex + 1 \in 1..Len(call.briefkopfPages)
       IN  IF ~exists
           THEN stamp' = [stamp EXCEPT ![c] =
                    Rejected(call, "Briefkopf PDF does not have a page at index")]
           ELSE IF ~CanEmbed(call.briefkopfPages[briefkopfPageIndex + 1])
                   \/ ~CanEmbed(generatedPage)
           THEN stamp' = [stamp EXCEPT ![c] =
                    Rejected(call, "Can't embed page with missing Contents")]
           ELSE stamp' = [d \in CallIds |->
                    LET appended ==
                            IF stamp[d].phase = "loop"
                            THEN [stamp[d] EXCEPT !.finalDoc = Append(stamp[d].finalDoc,
                                     FinalPage(call.briefkopfPages[briefkopfPageIndex + 1],
                                               generatedPage))]
                            ELSE stamp[d]
                    IN  IF d = c THEN [appended EXCEPT !.i = call.i + 1] ELSE appended]
    /\ UNCHANGED <<csvRows, invoices, pc, today, parseArg, parsed, validated, batchVars, briefheadFile>>

\* one iteration of the loop over generatedPages
StampPage(c) ==
    /\ stamp[c].phase = "loop"
    /\ stamp[c].i < Len(stamp[c].generatedPages)
    /\ LET call == stamp[c]
           generatedPage == call.generatedPages[call.i + 1]
           briefkopfPageIndex == BriefkopfPageIndex(call.i, Len(call.briefkopfPages))
           exists == briefkopfPageIndex + 1 \in 1..Len(call.briefkopfPages)
       IN  stamp' = [stamp EXCEPT ![c] =
               IF ~exists
               THEN Rejected(call, "Briefkopf PDF does not have a page at index")
               ELSE IF ~CanEmbed(call.briefkopfPages[briefkopfPageIndex + 1])
                       \/ ~CanEmbed(generatedPage)
               THEN Rejected(call, "Can't embed page with missing Contents")
               ELSE [call EXCEPT
                        !.finalDoc = Append(call.finalDoc,
                            FinalPage(call.briefkopfPages[briefkopfPageIndex + 1],
                                      generatedPage)),
                        !.i = call.i + 1]]
    /\ UNCHANGED <<csvRows, invoices, pc, today, parseArg, parsed, validated, batchVars, briefheadFile>>

\* Buffer.from(await finalDoc.save())
StampSave(c) ==
    /\ stamp[c].phase = "loop"
    /\ stamp[c].i = Len(stamp[c].generatedPages)
    /\ stamp' = [stamp EXCEPT ![c] =
           [stamp[c] EXCEPT !.phase = "returned", !.result = Pdf(stamp[c].finalDoc)]]
    /\ UNCHANGED <<csvRows, invoices, pc, today, parseArg, parsed, validated, batchVars, briefheadFile>>

\* no batch is running
NoBatch ==
    /\ options = [processAll |-> FALSE, targetLfNr |-> Null, targetLfNrs |-> <<>>,
                  shouldStamp |-> FALSE]
    /\ invoicesToProcess = <<>>
    /\ attempted = 0
    /\ successCount = 0
    /\ errorCount = 0
    /\ exitCode = -1
    /\ browser = "undefined"
    /\ generatedPdfBuffer = Corrupt
    /\ files = {}
    /\ outputPath = <<>>
    /\ processed = <<>>

\* no call of stampPDFOnBriefhead is made
NoStamp ==
    /\ briefheadFile = NoFile
    /\ stamp = [c \in CallIds |-> IdleCall]

(***************************************************************************)
(* index.ts main, up to the conversion of the rows.                        *)
(***************************************************************************)
\* csvData.filter(row => row['Nachname1']?.trim() ...)
validCsvData ==
    SelectSeq(csvRows, LAMBDA row : IsString(row.Nachname1) /\ Trim(row.Nachname1.s) # <<>>)

Init ==
    /\ csvRows \in [1..NumRows -> CSVRecords]
    /\ invoices = <<>>
    /\ pc = "map"
    /\ today \in 1..MaxDay
    /\ parseArg = Undefined
    /\ parsed = Number(0)
    /\ validated = NotValidated
    /\ NoBatch
    /\ NoStamp

\* validCsvData.map(row => calculateInvoiceData(row)): one row; an error
\* ends the run in main's catch block, with process.exit(1)
MapRow ==
    /\ pc = "map"
    /\ Len(invoices) < Len(validCsvData)
    /\ LET r == calculateInvoiceData(validCsvData[Len(invoices) + 1])
       IN  IF Threw(r)
           THEN pc' = "critical" /\ exitCode' = 1 /\ UNCHANGED invoices
           ELSE invoices' = Append(invoices, r) /\ UNCHANGED <<pc, exitCode>>
    /\ UNCHANGED <<csvRows, today, parseArg, parsed, validated, stampVars>>
    /\ UNCHANGED <<options, invoicesToProcess, attempted, successCount, errorCount,
                   browser, generatedPdfBuffer, files, outputPath, processed>>

\* every row is converted
MapDone ==
    /\ pc = "map"
    /\ Len(invoices) = Len(validCsvData)
    /\ pc' = "mapped"
    /\ UNCHANGED <<csvRows, invoices, today, parseArg, parsed, validated, batchVars, stampVars>>

\* the system clock passes midnight
Tick ==
    /\ today < MaxDay
    /\ today' = today + 1
    /\ UNCHANGED <<csvRows, invoices, pc, parseArg, parsed, validated, batchVars, stampVars>>

Next == MapRow \/ MapDone \/ Tick

Spec == Init /\ [][Next]_vars

\* main on a file of one row, the row any of CalcRecords
InitCalc ==
    /\ csvRows \in [1..1 -> CalcRecords]
    /\ invoices = <<>>
    /\ pc = "map"
    /\ today \in 1..MaxDay
    /\ parseArg = Undefined
    /\ parsed = Number(0)
    /\ validated = NotValidated
    /\ NoBatch
    /\ NoStamp

SpecCalc == InitCalc /\ [][Next]_vars

(***************************************************************************)
(* parseGermanNumber on its own.                                           *)
(***************************************************************************)
InitParse ==
    /\ csvRows = <<>>
    /\ invoices = <<>>
    /\ pc = "parse"
    /\ today = 1
    /\ parseArg \in ParseInputs
    /\ parsed = Number(0)
    /\ validated = NotValidated
    /\ NoBatch
    /\ NoStamp

CallParse ==
    /\ pc = "parse"
    /\ parsed' = parseGermanNumber(parseArg)
    /\ pc' = "parsed"
    /\ UNCHANGED <<csvRows, invoices, today, parseArg, validated, batchVars, stampVars>>

NextParse == CallParse

SpecParse == InitParse /\ [][NextParse]_vars

(***************************************************************************)
(* validateInvoiceData on its own.                                         *)
(***************************************************************************)
\* the invoice data calculateInvoiceData returns for the base record
CalculatedInvoice == calculateInvoiceData(BaseRecord)

\* what a required field of the invoice data holds when it is absent: the
\* total 0; name and strasse the empty string or undefined; the others the
\* empty string
ValidateInputs(field, missing) ==
    IF field = "gesamtbetragBrutto" THEN 0
    ELSE IF field \in {"name", "strasse"} THEN missing
    ELSE Str(<<>>)

\* validateInvoiceData is called with invoice data in which each required
\* field is as calculateInvoiceData set it or absent
InitValidate ==
    /\ csvRows = <<>>
    /\ \E absent \in SUBSET {requiredFields[k] : k \in 1..Len(requiredFields)},
          missing \in {Str(<<>>), Undefined} :
           invoices = <<[field \in DOMAIN CalculatedInvoice |->
                            IF field \in absent THEN ValidateInputs(field, missing)
                            ELSE CalculatedInvoice[field]]>>
    /\ pc = "validate"
    /\ today = 1
    /\ parseArg = Undefined
    /\ parsed = Number(0)
    /\ validated = NotValidated
    /\ NoBatch
    /\ NoStamp

\* validateInvoiceData(invoice) is called
CallValidate ==
    /\ pc = "validate"
    /\ pc' = "validated"
    /\ validated' = validateInvoiceData(invoices[1])
    /\ UNCHANGED <<csvRows, invoices, today, parseArg, parsed, batchVars, stampVars>>

NextValidate == CallValidate

SpecValidate == InitValidate /\ [][NextValidate]_vars

(***************************************************************************)
(* index.ts parseLfNrSpecification.                                        *)
(***************************************************************************)
\* String.prototype.split(sep) for a one-character separator
RECURSIVE Split(_, _)
Split(s, sep) ==
    IF \A i \in 1..Len(s) : s[i] # sep THEN <<s>>
    ELSE LET k == CHOOSE i \in 1..Len(s) : s[i] = sep /\ \A j \in 1..(i - 1) : s[j] # sep
         IN  <<SubSeq(s, 1, k - 1)>> \o Split(SubSeq(s, k + 1, Len(s)), sep)

\* String.prototype.includes(c)
Includes(s, c) == \E i \in 1..Len(s) : s[i] = c

\* parseInt(str, 10): leading white space is skipped, a sign is read and
\* the longest prefix of digits is converted; NaN without a digit.  The
\* number is v itself.
parseInt(str) ==
    LET t == TrimLeft(str)
        signed == t # <<>> /\ Head(t) \in {"-", "+"}
        sign == IF t # <<>> /\ Head(t) = "-" THEN -1 ELSE 1
        u == IF signed THEN Tail(t) ELSE t
        ni == DigitPrefixLen(u)
    IN  IF ni = 0 THEN NaN ELSE Number(sign * DigitsVal(SubSeq(u, 1, ni)))

\* String(i) of an integer
String(i) == IF i < 0 THEN <<"-">> \o NatDigits(-i) ELSE NatDigits(i)

\* what one part of the specification pushes to result
LfNrsOfPart(part) ==
    IF Includes(part, "-")
    THEN LET pieces == Split(part, "-")
             start == parseInt(Trim(pieces[1]))
             end == parseInt(Trim(pieces[2]))
         IN  IF start.nan \/ end.nan THEN <<>>
             ELSE IF start.v > end.v THEN <<>>
             ELSE [k \in 1..(end.v - start.v + 1) |-> String(start.v + k - 1)]
    ELSE LET num == parseInt(part)
         IN  IF num.nan THEN <<>> ELSE <<String(num.v)>>

\* the loop over the parts
RECURSIVE LfNrsOfParts(_)
LfNrsOfParts(parts) ==
    IF parts = <<>> THEN <<>>
    ELSE LfNrsOfPart(Head(parts)) \o LfNrsOfParts(Tail(parts))

parseLfNrSpecification(lfSpec) ==
    LET split == Split(lfSpec, ",")
        parts == [k \in 1..Len(split) |-> Trim(split[k])]
    IN  LfNrsOfParts(parts)

\* parts of a specification: numbers, ranges, and what is neither
LfParts ==
    {<<"1">>, <<"7">>, <<"0", "3">>, <<" ", "2", " ">>,
     <<"3", "-", "5">>, <<"2", "-", "2">>, <<"1", " ", "-", " ", "2">>,
     <<"5", "-", "3">>, <<"1", "-">>, <<"-", "3">>, <<"1", "-", "3", "-", "5">>,
     <<"x">>, <<"3", "x">>, <<>>}

\* Array.prototype.join(',')
RECURSIVE JoinComma(_)
JoinComma(parts) ==
    IF parts = <<>> THEN <<>>
    ELSE IF Len(parts) = 1 THEN parts[1]
    ELSE parts[1] \o <<",">> \o JoinComma(Tail(parts))

\* the specifications of up to MaxParts parts, and "1,3-5,7"
LfSpecs ==
    UNION {{JoinComma(parts) : parts \in [1..n -> LfParts]} : n \in 1..MaxParts}
        \cup {<<"1", ",", "3", "-", "5", ",", "7">>}

\* parseLfNrSpecification is called with a specification
InitLfNr ==
    /\ csvRows = <<>>
    /\ invoices = <<>>
    /\ pc = "args"
    /\ today = 1
    /\ parseArg = Undefined
    /\ parsed = Number(0)
    /\ validated = NotValidated
    /\ NoStamp
    /\ \E lfSpec \in LfSpecs :
           options = [processAll |-> FALSE, targetLfNr |-> Str(lfSpec),
                      targetLfNrs |-> <<>>, shouldStamp |-> TRUE]
    /\ invoicesToProcess = <<>>
    /\ attempted = 0
    /\ successCount = 0
    /\ errorCount = 0
    /\ exitCode = -1
    /\ browser = "undefined"
    /\ generatedPdfBuffer = Corrupt
    /\ files = {}
    /\ outputPath = <<>>
    /\ processed = <<>>

\* parseCommandLineArgs: targetLfNrs of targetLfNr
CallParseLfNr ==
    /\ pc = "args"
    /\ pc' = "options"
    /\ options' = [options EXCEPT !.targetLfNrs =
                      IF Truthy(options.targetLfNr)
                      THEN parseLfNrSpecification(options.targetLfNr.s)
                      ELSE <<>>]
    /\ UNCHANGED <<csvRows, invoices, today, parseArg, parsed, validated, stampVars>>
    /\ UNCHANGED <<invoicesToProcess, attempted, successCount, errorCount, exitCode,
                   browser, generatedPdfBuffer, files, outputPath, processed>>

NextLfNr == CallParseLfNr

SpecLfNr == InitLfNr /\ [][NextLfNr]_vars

(***************************************************************************)
(* index.ts main as a whole: the command line, the conversion of the rows, *)
(* the selection of the invoices and the batch loop with processInvoice,   *)
(* generatePDF and savePDF.                                                *)
(***************************************************************************)
\* what parseCommandLineArgs returns for a command line
CommandLine(processAll, targetLfNr, targetLfNrs, shouldStamp) ==
    [processAll |-> processAll, targetLfNr |-> targetLfNr,
     targetLfNrs |-> targetLfNrs, shouldStamp |-> shouldStamp]

\* what parseCommandLineArgs returns for the one argument --lf=<lfSpec>
LfCommandLine(lfSpec) ==
    CommandLine(FALSE, Str(lfSpec),
                IF lfSpec # <<>> THEN parseLfNrSpecification(lfSpec) ELSE <<>>, TRUE)

\* --all; --all --no-stamp; --lf=2,1; --lf=1,1-2; --lf=4,2; --lf=9; --lf=x;
\* --lf=; no argument
CommandLines ==
    {CommandLine(TRUE, Null, <<>>, TRUE),
     CommandLine(TRUE, Null, <<>>, FALSE),
     LfCommandLine(<<"2", ",", "1">>),
     LfCommandLine(<<"1", ",", "1", "-", "2">>),
     LfCommandLine(<<"4", ",", "2">>),
     LfCommandLine(<<"9">>),
     LfCommandLine(<<"x">>),
     LfCommandLine(<<>>),
     CommandLine(FALSE, Null, <<>>, TRUE)}

\* the rows of the CSV file of a batch: two rows that are valid invoices,
\* one without a street and one without a name
BatchRecords ==
    {BaseRecord,
     [BaseRecord EXCEPT !.LfNr = Str(<<"4">>), !.Nachname1 = Str(<<" ">>)],
     [BaseRecord EXCEPT !.Land = Str(<<"c", "h">>), !.LfNr = Str(<<"2", " ">>),
                        !.Anrede2 = Str(<<"Frau">>),
                        !.Vorname2 = Str(<<"C">>), !.Nachname2 = Str(<<"B">>)],
     [BaseRecord EXCEPT !.LfNr = Str(<<"3">>), !.Strasse = Str(<<>>)]}

\* what may be at config.briefheadPdf in a batch: no file, bytes that are
\* no document, a letterhead without pages, a letterhead of the most pages
\* and one whose last page has no content stream
BatchLetterheadFiles ==
    {NoFile, File(Corrupt), File(LetterheadDoc(0)),
     File(LetterheadDoc(MaxLetterheadPages)),
     File(BlankLetterheadDoc(MaxLetterheadPages, MaxLetterheadPages))}

\* the CSV files of a batch: every row has a running number of its own
BatchFiles ==
    {rows \in [1..NumRows -> BatchRecords] :
        \A i, j \in 1..NumRows : i # j => rows[i].LfNr # rows[j].LfNr}

InitBatch ==
    /\ csvRows \in BatchFiles
    /\ invoices = <<>>
    /\ pc = "start"
    /\ today = 1
    /\ parseArg = Undefined
    /\ parsed = Number(0)
    /\ validated = NotValidated
    /\ options \in CommandLines
    /\ invoicesToProcess = <<>>
    /\ attempted = 0
    /\ successCount = 0
    /\ errorCount = 0
    /\ exitCode = -1
    /\ browser = "undefined"
    /\ generatedPdfBuffer = Corrupt
    /\ files = {}
    /\ outputPath = <<>>
    /\ processed = <<>>
    /\ briefheadFile \in BatchLetterheadFiles
    /\ stamp = [c \in CallIds |-> IdleCall]

\* main up to readCSV: without --all and --lf the usage is shown
Start ==
    /\ pc = "start"
    /\ IF ~options.processAll /\ ~Truthy(options.targetLfNr)
       THEN pc' = "exited" /\ exitCode' = 0
       ELSE pc' = "map" /\ UNCHANGED exitCode
    /\ UNCHANGED <<csvRows, invoices, today, parseArg, parsed, validated, stampVars>>
    /\ UNCHANGED <<options, invoicesToProcess, attempted, successCount, errorCount,
                   browser, generatedPdfBuffer, files, outputPath, processed>>

\* invoices.filter(i => options.targetLfNrs.includes(i.lfNr.trim()))
MatchingLfNr(invoice) ==
    \E k \in 1..Len(options.targetLfNrs) : options.targetLfNrs[k] = Trim(invoice.lfNr.s)

\* the invoices looked up number by number, in the order of the list
RECURSIVE InListOrder(_)
InListOrder(lfNrs) ==
    IF lfNrs = <<>> THEN <<>>
    ELSE SelectSeq(invoices, LAMBDA i : Trim(i.lfNr.s) = Head(lfNrs))
             \o InListOrder(Tail(lfNrs))

\* the selection made by a loop over options.targetLfNrs
SelectInvoices_inListOrder ==
    /\ pc = "mapped"
    /\ IF options.processAll
       THEN /\ invoicesToProcess' = invoices
            /\ pc' = "loop"
            /\ UNCHANGED exitCode
       ELSE IF Len(options.targetLfNrs) > 0
       THEN IF \E i \in 1..Len(invoices) : ~IsString(invoices[i].lfNr)
            THEN /\ pc' = "critical"
                 /\ exitCode' = 1
                 /\ UNCHANGED invoicesToProcess
            ELSE /\ invoicesToProcess' = InListOrder(options.targetLfNrs)
                 /\ IF invoicesToProcess' = <<>>
                    THEN pc' = "exited" /\ exitCode' = 1
                    ELSE pc' = "loop" /\ UNCHANGED exitCode
       ELSE /\ pc' = "exited"
            /\ exitCode' = 1
            /\ UNCHANGED invoicesToProcess
    /\ UNCHANGED <<csvRows, invoices, today, parseArg, parsed, validated, stampVars>>
    /\ UNCHANGED <<options, attempted, successCount, errorCount,
                   browser, generatedPdfBuffer, files, outputPath, processed>>

\* the selection of the invoices to process
SelectInvoices ==
    /\ pc = "mapped"
    /\ IF options.processAll
       THEN /\ invoicesToProcess' = invoices
            /\ pc' = "loop"
            /\ UNCHANGED exitCode
       ELSE IF Len(options.targetLfNrs) > 0
       THEN IF \E i \in 1..Len(invoices) : ~IsString(invoices[i].lfNr)
            THEN \* i.lfNr.trim() throws: main's catch block
                 /\ pc' = "critical"
                 /\ exitCode' = 1
                 /\ UNCHANGED invoicesToProcess
            ELSE /\ invoicesToProcess' = SelectSeq(invoices, MatchingLfNr)
                 /\ IF invoicesToProcess' = <<>>
                    THEN pc' = "exited" /\ exitCode' = 1
                    ELSE pc' = "loop" /\ UNCHANGED exitCode
       ELSE /\ pc' = "exited"
            /\ exitCode' = 1
            /\ UNCHANGED invoicesToProcess
    /\ UNCHANGED <<csvRows, invoices, today, parseArg, parsed, validated, stampVars>>
    /\ UNCHANGED <<options, attempted, successCount, errorCount,
                   browser, generatedPdfBuffer, files, outputPath, processed>>

\* the invoice the batch loop is at
CurrentInvoice == invoicesToProcess[attempted]

\* processInvoice threw and the catch block of the loop counted it
InvoiceFailed_abort ==
    /\ pc' = "critical"
    /\ exitCode' = 1
    /\ UNCHANGED <<successCount, errorCount>>

\* successCount++ after the try statement instead of inside it
InvoiceFailed_countedTwice ==
    /\ errorCount' = errorCount + 1
    /\ successCount' = successCount + 1
    /\ pc' = "loop"
    /\ UNCHANGED exitCode

\* processInvoice threw: the catch block of the loop
InvoiceFailed ==
    /\ errorCount' = errorCount + 1
    /\ pc' = "loop"
    /\ UNCHANGED <<successCount, exitCode>>

\* processInvoice returned: the loop counts it
InvoiceSucceeded ==
    /\ successCount' = successCount + 1
    /\ pc' = "loop"
    /\ UNCHANGED <<errorCount, exitCode>>

\* processInvoice going on to generatePDF whatever the validation gave
ProcessInvoice_unvalidated ==
    /\ pc = "loop"
    /\ attempted < Len(invoicesToProcess)
    /\ attempted' = attempted + 1
    /\ LET invoice == invoicesToProcess[attempted + 1]
       IN  /\ processed' = Append(processed, <<invoice.lfNr, invoice.rechnungsNummer>>)
           /\ validated' = validateInvoiceData(invoice)
           /\ pc' = "generate"
           /\ UNCHANGED <<successCount, errorCount, exitCode>>
    /\ UNCHANGED <<csvRows, invoices, today, parseArg, parsed, stampVars>>
    /\ UNCHANGED <<options, invoicesToProcess, browser, generatedPdfBuffer, files,
                   outputPath>>

\* the loop takes the next invoice: processInvoice announces it and
\* validates it
ProcessInvoice ==
    /\ pc = "loop"
    /\ attempted < Len(invoicesToProcess)
    /\ attempted' = attempted + 1
    /\ LET invoice == invoicesToProcess[attempted + 1]
       IN  /\ processed' = Append(processed, <<invoice.lfNr, invoice.rechnungsNummer>>)
           /\ validated' = validateInvoiceData(invoice)
           /\ IF Threw(validateInvoiceData(invoice))
              THEN InvoiceFailed
              ELSE pc' = "generate" /\ UNCHANGED <<successCount, errorCount, exitCode>>
    /\ UNCHANGED <<csvRows, invoices, today, parseArg, parsed, stampVars>>
    /\ UNCHANGED <<options, invoicesToProcess, browser, generatedPdfBuffer, files,
                   outputPath>>

\* generatePDF: the template is compiled and filled and the browser is
\* launched, or one of them throws
GenerateLaunch ==
    /\ pc = "generate"
    /\ \E launched \in BOOLEAN :
           IF launched
           THEN /\ browser' = "open"
                /\ pc' = "render"
                /\ UNCHANGED <<successCount, errorCount, exitCode>>
           ELSE /\ browser' = "undefined"
                /\ InvoiceFailed
    /\ UNCHANGED <<csvRows, invoices, today, parseArg, parsed, validated, stampVars>>
    /\ UNCHANGED <<options, invoicesToProcess, attempted, generatedPdfBuffer, files,
                   outputPath, processed>>

\* generatePDF with a catch block that only throws the error on
GenerateRender_leak ==
    /\ pc = "render"
    /\ \/ /\ generatedPdfBuffer' \in ContentDocs
          /\ browser' = "closed"
          /\ pc' = "save"
          /\ UNCHANGED <<successCount, errorCount, exitCode>>
       \/ /\ InvoiceFailed
          /\ UNCHANGED <<generatedPdfBuffer, browser>>
    /\ UNCHANGED <<csvRows, invoices, today, parseArg, parsed, validated, stampVars>>
    /\ UNCHANGED <<options, invoicesToProcess, attempted, files, outputPath, processed>>

\* generatePDF: newPage, setContent and page.pdf; the browser is closed
\* after them and in the catch block
GenerateRender ==
    /\ pc = "render"
    /\ browser' = "closed"
    /\ \/ /\ generatedPdfBuffer' \in ContentDocs
          /\ pc' = "save"
          /\ UNCHANGED <<successCount, errorCount, exitCode>>
       \/ /\ InvoiceFailed
          /\ UNCHANGED generatedPdfBuffer
    /\ UNCHANGED <<csvRows, invoices, today, parseArg, parsed, validated, stampVars>>
    /\ UNCHANGED <<options, invoicesToProcess, attempted, files, outputPath, processed>>

\* String.prototype.replaceAll(a, b) for one-character strings
ReplaceAll(s, a, b) == [k \in 1..Len(s) |-> IF s[k] = a THEN b ELSE s[k]]

\* Array.prototype.join(' ')
RECURSIVE JoinSpace(_)
JoinSpace(parts) ==
    IF parts = <<>> THEN <<>>
    ELSE IF Len(parts) = 1 THEN parts[1]
    ELSE parts[1] \o <<" ">> \o JoinSpace(Tail(parts))

\* savePDF: the path of the file of an invoice
OutputPathOf(invoiceData) ==
    LET filenameParts ==
            <<invoiceData.lfNr.s, ReplaceAll(invoiceData.nachname1.s, "/", "_")>>
                \o (IF Truthy(invoiceData.nachname2) THEN <<invoiceData.nachname2.s>> ELSE <<>>)
                \o (IF Truthy(invoiceData.nachname3) THEN <<invoiceData.nachname3.s>> ELSE <<>>)
    IN  <<"output", "/">> \o JoinSpace(filenameParts) \o <<".pdf">>

\* fs.writeFileSync(path, bytes)
WriteFile(path, bytes) ==
    {f \in files : f.path # path} \cup {[path |-> path, bytes |-> bytes]}

\* savePDF without the check that the letterhead file exists
SavePDF_unchecked ==
    /\ pc = "save"
    /\ IF ~IsString(CurrentInvoice.nachname1)
       THEN /\ InvoiceFailed
            /\ UNCHANGED <<files, outputPath, stamp>>
       ELSE IF ~options.shouldStamp
       THEN /\ files' = WriteFile(OutputPathOf(CurrentInvoice), generatedPdfBuffer)
            /\ outputPath' = OutputPathOf(CurrentInvoice)
            /\ InvoiceSucceeded
            /\ UNCHANGED stamp
       ELSE /\ stamp' = [stamp EXCEPT ![1] = CalledWith(generatedPdfBuffer)]
            /\ pc' = "stamping"
            /\ UNCHANGED <<files, outputPath, successCount, errorCount, exitCode>>
    /\ UNCHANGED <<csvRows, invoices, today, parseArg, parsed, validated, briefheadFile>>
    /\ UNCHANGED <<options, invoicesToProcess, attempted, browser, generatedPdfBuffer,
                   processed>>

\* savePDF up to the call of stampPDFOnBriefhead: without stamping and
\* without a letterhead file the generated document is written
SavePDF ==
    /\ pc = "save"
    /\ IF ~IsString(CurrentInvoice.nachname1)
       THEN \* nachname1.replaceAll throws
            /\ InvoiceFailed
            /\ UNCHANGED <<files, outputPath, stamp>>
       ELSE IF ~options.shouldStamp \/ ~briefheadFile.exists
       THEN /\ files' = WriteFile(OutputPathOf(CurrentInvoice), generatedPdfBuffer)
            /\ outputPath' = OutputPathOf(CurrentInvoice)
            /\ InvoiceSucceeded
            /\ UNCHANGED stamp
       ELSE /\ stamp' = [stamp EXCEPT ![1] = CalledWith(generatedPdfBuffer)]
            /\ pc' = "stamping"
            /\ UNCHANGED <<files, outputPath, successCount, errorCount, exitCode>>
    /\ UNCHANGED <<csvRows, invoices, today, parseArg, parsed, validated, briefheadFile>>
    /\ UNCHANGED <<options, invoicesToProcess, attempted, browser, generatedPdfBuffer,
                   processed>>

\* savePDF without its catch block: an error of the call is thrown on
SaveStamped_rethrow ==
    /\ pc = "stamping"
    /\ stamp[1].phase \in {"returned", "threw"}
    /\ IF stamp[1].phase = "returned"
       THEN /\ files' = WriteFile(OutputPathOf(CurrentInvoice), stamp[1].result)
            /\ outputPath' = OutputPathOf(CurrentInvoice)
            /\ InvoiceSucceeded
       ELSE /\ InvoiceFailed
            /\ UNCHANGED <<files, outputPath>>
    /\ UNCHANGED <<csvRows, invoices, today, parseArg, parsed, validated, stampVars>>
    /\ UNCHANGED <<options, invoicesToProcess, attempted, browser, generatedPdfBuffer,
                   processed>>

\* savePDF after the call: the stamped document is written, or in the
\* catch block the generated one
SaveStamped ==
    /\ pc = "stamping"
    /\ stamp[1].phase \in {"returned", "threw"}
    /\ files' = WriteFile(OutputPathOf(CurrentInvoice),
                          IF stamp[1].phase = "returned" THEN stamp[1].result
                          ELSE generatedPdfBuffer)
    /\ outputPath' = OutputPathOf(CurrentInvoice)
    /\ InvoiceSucceeded
    /\ UNCHANGED <<csvRows, invoices, today, parseArg, parsed, validated, stampVars>>
    /\ UNCHANGED <<options, invoicesToProcess, attempted, browser, generatedPdfBuffer,
                   processed>>

\* the summary after the loop; process.exit(1) if an invoice failed
Summary ==
    /\ pc = "loop"
    /\ attempted = Len(invoicesToProcess)
    /\ pc' = "done"
    /\ exitCode' = IF errorCount > 0 THEN 1 ELSE 0
    /\ UNCHANGED <<csvRows, invoices, today, parseArg, parsed, validated, stampVars>>
    /\ UNCHANGED <<options, invoicesToProcess, attempted, successCount, errorCount,
                   browser, generatedPdfBuffer, files, outputPath, processed>>

NextBatch ==
    \/ Start
    \/ MapRow
    \/ MapDone
    \/ SelectInvoices
    \/ ProcessInvoice
    \/ GenerateLaunch
    \/ GenerateRender
    \/ SavePDF
    \/ \E c \in CallIds : StampLoad(c) \/ StampPage(c) \/ StampSave(c)
    \/ SaveStamped
    \/ Summary

SpecBatch == InitBatch /\ [][NextBatch]_vars

\* a step of the batch loop
LoopStep ==
    \/ ProcessInvoice
    \/ GenerateLaunch
    \/ GenerateRender
    \/ SavePDF
    \/ \E c \in CallIds : StampLoad(c) \/ StampPage(c) \/ StampSave(c)
    \/ SaveStamped
    \/ Summary

\* the batch loop goes on while a step of it is possible: every await in
\* processInvoice settles
SpecBatchFair == SpecBatch /\ WF_vars(LoopStep)

(***************************************************************************)
(* stampPDFOnBriefhead on its own: a first call on a buffer and the        *)
(* letterhead file, and calls on what the call before returned.            *)
(***************************************************************************)
InitStamp ==
    /\ csvRows = <<>>
    /\ invoices = <<>>
    /\ pc = "stamp"
    /\ today = 1
    /\ parseArg = Undefined
    /\ parsed = Number(0)
    /\ validated = NotValidated
    /\ NoBatch
    /\ briefheadFile \in LetterheadFiles
    /\ \E buffer \in ContentDocs \cup {Corrupt} :
           stamp = [c \in CallIds |-> IF c = 1 THEN CalledWith(buffer) ELSE IdleCall]

\* the document a call returned is stamped again on the same letterhead
Restamp ==
    /\ pc = "stamp"
    /\ \E c \in CallIds :
           /\ c + 1 \in CallIds
           /\ stamp[c].phase = "returned"
           /\ stamp[c + 1].phase = "idle"
           /\ stamp' = [stamp EXCEPT ![c + 1] = CalledWith(stamp[c].result)]
    /\ UNCHANGED <<csvRows, invoices, pc, today, parseArg, parsed, validated, batchVars, briefheadFile>>

NextStamp ==
    \/ \E c \in CallIds : StampLoad(c) \/ StampPage(c) \/ StampSave(c)
    \/ Restamp

SpecStamp == InitStamp /\ [][NextStamp]_vars

(***************************************************************************)
(* Calls of stampPDFOnBriefhead that run at the same time, each on another *)
(* buffer and all on the letterhead file.  A call gives up control at its  *)
(* awaits, so the steps of the calls interleave in any order.              *)
(***************************************************************************)
InitConcurrent ==
    /\ csvRows = <<>>
    /\ invoices = <<>>
    /\ pc = "stamp"
    /\ today = 1
    /\ parseArg = Undefined
    /\ parsed = Number(0)
    /\ validated = NotValidated
    /\ NoBatch
    /\ briefheadFile \in LetterheadFiles
    /\ \E buffers \in [CallIds -> ContentDocs \cup {Corrupt}] :
           /\ \A c, d \in CallIds : c # d => buffers[c] # buffers[d]
           /\ stamp = [c \in CallIds |-> CalledWith(buffers[c])]

NextConcurrent ==
    \E c \in CallIds : StampLoad(c) \/ StampPage(c) \/ StampSave(c)

SpecConcurrent == InitConcurrent /\ [][NextConcurrent]_vars

(***************************************************************************)
(* What the properties are stated with.                                    *)
(***************************************************************************)
\* the rows converted so far
Converted == 1..Len(invoices)

\* the dispute value of a row in cents: its parsed 'Streitwert Klage'
DisputeValue(row) == parseGermanNumber(row.StreitwertKlage).v

\* the whole number of cents nearest to an amount of x hundredths of a
\* cent, away from zero when two are equally near
Round2(x) ==
    CHOOSE c \in ((x \div 100) - 1)..((x \div 100) + 1) :
        /\ \A d \in ((x \div 100) - 1)..((x \div 100) + 1) :
               (IF x > 100 * c THEN x - 100 * c ELSE 100 * c - x)
                   <= (IF x > 100 * d THEN x - 100 * d ELSE 100 * d - x)
        /\ \/ (x >= 0 /\ 100 * c - x = 50)
           \/ (x < 0 /\ x - 100 * c = 50)
           \/ (x - 100 * c # 50 /\ 100 * c - x # 50)

\* the band k of a dispute value v: 500000 + (k-1)*50000 < v <= 500000 + k*50000
BandOf(v) ==
    CHOOSE k \in (-40)..40 :
        /\ 50000000 + (k - 1) * 5000000 < v
        /\ v <= 50000000 + k * 5000000

\* round2((3539 + band * 165) * 2.3) in cents
FeeOfBand(band) == Round2((3539 + band * 165) * 23000)

Fee(i) == invoices[i].gebuehren.zweiKommaDreiGebuehr

\* C1: the banded fee of every converted record is
\* round2((3539 + band * 165) * 2.3) with band = ceil((v - 500000) / 50000),
\* v the parsed 'Streitwert Klage' of the record
C1_FeeFormula ==
    \A i \in Converted : Fee(i) = FeeOfBand(BandOf(DisputeValue(validCsvData[i])))

\* a record with dispute value 575000.00 and another 'Gesamtstreitwert' is
\* converted, with the fee of band 2
C1_Witness ==
    \E i \in Converted :
        /\ validCsvData[i].StreitwertKlage = GermanAmount(57500000)
        /\ validCsvData[i].Gesamtstreitwert = GermanAmount(120000000)
        /\ Fee(i) = 889870

\* C2 as stated: band 0 on [500000, 550000), band 1 on (550000, 600000],
\* band 0 at 550000
C2_AsStated ==
    \A i \in Converted :
        LET v == DisputeValue(validCsvData[i])
        IN  /\ (50000000 <= v /\ v < 55000000) => Fee(i) = FeeOfBand(0)
            /\ (55000000 < v /\ v <= 60000000) => Fee(i) = FeeOfBand(1)
            /\ v = 55000000 => Fee(i) = FeeOfBand(0)

\* C2, amended: the band is 0 at the dispute value 500000, 1 on
\* (500000, 550000] including the boundary value 550000, and 2 on
\* (550000, 600000]
C2_Bands ==
    \A i \in Converted :
        LET v == DisputeValue(validCsvData[i])
        IN  /\ v = 50000000 => Fee(i) = FeeOfBand(0)
            /\ (50000000 < v /\ v <= 55000000) => Fee(i) = FeeOfBand(1)
            /\ (55000000 < v /\ v <= 60000000) => Fee(i) = FeeOfBand(2)

\* the boundary value 550000.00 is converted, in band 1
C2_Witness ==
    \E i \in Converted :
        /\ validCsvData[i].StreitwertKlage = GermanAmount(55000000)
        /\ Fee(i) = FeeOfBand(1)
        /\ Fee(i) # FeeOfBand(0)

\* C3: a dispute value at 500000 + k*50000 is in band k, one cent above it
\* in band k+1, and of two converted records the one with the smaller
\* dispute value never has the larger fee
C3_StepFunction ==
    /\ \A i \in Converted :
           LET v == DisputeValue(validCsvData[i])
               \* v = 500000 + k * 50000 + r with 0 <= r < 50000
               k == (v - 50000000) \div 5000000
               r == (v - 50000000) % 5000000
           IN  /\ r = 0 => Fee(i) = FeeOfBand(k)
               /\ r = 1 => Fee(i) = FeeOfBand(k + 1)
    /\ \A i, j \in Converted :
           DisputeValue(validCsvData[i]) <= DisputeValue(validCsvData[j])
               => Fee(i) <= Fee(j)

\* 550000.00 and 550000.01 are converted in one run: bands 1 and 2
C3_Witness ==
    \E i, j \in Converted :
        /\ DisputeValue(validCsvData[i]) = 55000000
        /\ DisputeValue(validCsvData[j]) = 55000001
        /\ Fee(i) = FeeOfBand(1)
        /\ Fee(j) = FeeOfBand(2)
        /\ Fee(i) < Fee(j)

\* C4 as stated: for the dispute value 600000 the fee is 8578.90, the
\* pre-tax total 8998.68 (8598.90 before the surcharge), the tax 1709.75
\* and the post-tax total 10708.43
C4_AsStated ==
    \A i \in Converted :
        DisputeValue(validCsvData[i]) = 60000000 =>
            /\ BandOf(60000000) = 2
            /\ Fee(i) = 857890
            /\ invoices[i].gesamtRechnungsbetragOld = 859890
            /\ invoices[i].gesamtbetragNetto = 899868
            /\ invoices[i].mehrwertsteuer = 170975
            /\ invoices[i].gesamtbetragBrutto = 1070843

\* C4, amended: for the dispute value 600000 the band is 2, the fee
\* 8898.70, the pre-tax total 9318.48 (8918.70 after the 20.00 allowance,
\* then plus the 399.78 surcharge), the tax 1770.51 and the post-tax total
\* 11088.99
C4_Scenario ==
    \A i \in Converted :
        DisputeValue(validCsvData[i]) = 60000000 =>
            /\ BandOf(60000000) = 2
            /\ Fee(i) = FeeOfBand(2)
            /\ Fee(i) = 889870
            /\ invoices[i].gesamtRechnungsbetragOld = 891870
            /\ invoices[i].erhoehungsgebuehrOld = 39978
            /\ invoices[i].gesamtbetragNetto = 931848
            /\ invoices[i].mehrwertsteuer = 177051
            /\ invoices[i].gesamtbetragBrutto = 1108899

\* the record with 'Streitwert Klage' 600.000,00 is converted
C4_Witness ==
    \E i \in Converted :
        /\ validCsvData[i].StreitwertKlage = GermanAmount(60000000)
        /\ invoices[i].einzelStreitwert = 60000000
        /\ invoices[i].gesamtbetragBrutto = 1108899

\* C5: the post-tax total is round2(preTax + round2(preTax * 0.19)) with
\* preTax the returned gesamtbetragNetto, and it is the returned
\* gesamtbetragNetto plus the returned mehrwertsteuer
C5_PostTax ==
    \A i \in Converted :
        LET preTax == invoices[i].gesamtbetragNetto
        IN  /\ invoices[i].gesamtbetragBrutto
                   = Round2(Fine(preTax) + Fine(Round2(preTax * 19)))
            /\ invoices[i].gesamtbetragBrutto
                   = preTax + invoices[i].mehrwertsteuer

\* a record in band 1 is converted: its tax 1698.4062 is rounded up to
\* 1698.41, and the total is 8938.98 + 1698.41
C5_Witness ==
    \E i \in Converted :
        /\ invoices[i].gesamtbetragNetto = 893898
        /\ invoices[i].mehrwertsteuer = 169841
        /\ invoices[i].gesamtbetragBrutto = 1063739

\* C6: the pre-tax total is round2(round2(fee + allowance) + surcharge) and
\* the tax round2(pre-tax total * 0.19); they are the returned
\* gesamtRechnungsbetragOld + erhoehungsgebuehrOld and mehrwertsteuer
C6_RoundedSteps ==
    \A i \in Converted :
        LET step1 == Round2(Fine(Fee(i)) + Fine(invoices[i].auslagen.pauschale))
            preTax == Round2(Fine(step1) + Fine(invoices[i].auslagen.erhoehungsgebuehrOld))
            tax == Round2(preTax * 19)
        IN  /\ invoices[i].gesamtRechnungsbetragOld = step1
            /\ invoices[i].gesamtRechnungsbetragOld + invoices[i].erhoehungsgebuehrOld
                   = preTax
            /\ invoices[i].gesamtbetragNetto = preTax
            /\ invoices[i].mehrwertsteuer = tax

\* a record in band 3 is converted, whose tax is rounded up
C6_Witness ==
    \E i \in Converted :
        /\ Fee(i) = FeeOfBand(3)
        /\ (invoices[i].gesamtbetragNetto * 19) % 100 >= 50
        /\ invoices[i].mehrwertsteuer = (invoices[i].gesamtbetragNetto * 19) \div 100 + 1

\* C7: the pre-tax total is summe1 + summe2, summe1 the banded fee alone and
\* summe2 the allowance plus the surcharge; summe3, the sum of the three
\* cash outlays, and the three baseline fees are in the record and in none
\* of the pre-tax total, the tax and the post-tax total
C7_Subtotals ==
    \A i \in Converted :
        LET r == invoices[i]
        IN  /\ r.summe1 = r.gebuehren.zweiKommaDreiGebuehr
            /\ r.summe2 = r.auslagen.pauschale + r.auslagen.erhoehungsgebuehrOld
            /\ r.summe3 = r.barauslagen.kopien + r.barauslagen.telekommunikation
                              + r.barauslagen.gerichtskosten
            /\ r.summe3 > 0
            /\ r.gebuehren.verfahrensgebuehr + r.gebuehren.terminsgebuehr
                   + r.gebuehren.einigungsgebuehr > 0
            /\ r.gesamtbetragNetto = r.summe1 + r.summe2
            /\ r.mehrwertsteuer = Round2((r.summe1 + r.summe2) * 19)
            /\ r.gesamtbetragBrutto = r.summe1 + r.summe2 + r.mehrwertsteuer

\* a record is converted whose outlays are 750.00 and whose pre-tax total
\* is the fee plus 419.78
C7_Witness ==
    \E i \in Converted :
        /\ invoices[i].summe3 = 75000
        /\ invoices[i].summe2 = 41978
        /\ invoices[i].gesamtbetragNetto = Fee(i) + 41978

\* the fields of an invoice record that come from the configuration
FixedPart(r) ==
    <<r.gebuehren.verfahrensgebuehr, r.gebuehren.terminsgebuehr,
      r.gebuehren.einigungsgebuehr, r.auslagen.pauschale,
      r.auslagen.erhoehungsgebuehrOld, r.erhoehungsgebuehrOld,
      r.barauslagen.kopien, r.barauslagen.telekommunikation,
      r.barauslagen.gerichtskosten, r.summe2, r.summe3>>

\* C8: the baseline fees, the allowance (20.00), the surcharge
\* (round2(1332.60 * 0.3) = 399.78), the cash outlays, summe2 and summe3 are
\* the same for any two converted records
C8_FixedFields ==
    \A i, j \in Converted :
        /\ FixedPart(invoices[i]) = FixedPart(invoices[j])
        /\ invoices[i].auslagen.pauschale = 2000
        /\ invoices[i].auslagen.erhoehungsgebuehrOld = Round2(133260 * 30)
        /\ invoices[i].auslagen.erhoehungsgebuehrOld = 39978

\* two records with different dispute values and fees are converted
C8_Witness ==
    \E i, j \in Converted :
        /\ validCsvData[i] # validCsvData[j]
        /\ Fee(i) # Fee(j)
        /\ FixedPart(invoices[i]) = FixedPart(invoices[j])

\* every column of the row is a string
AllStrings(row) == \A f \in DOMAIN row : IsString(row[f])

\* C9: a call of calculateInvoiceData on a row whose columns are all
\* strings returns an invoice record, the record an earlier call returned
\* for an equal row, and no call changes the rows
C9_TotalDeterministic ==
    [][(pc = "map" /\ (invoices' # invoices \/ pc' = "critical")) =>
          LET row == validCsvData[Len(invoices) + 1]
          IN  /\ csvRows' = csvRows
              /\ AllStrings(row) =>
                     /\ pc' # "critical"
                     /\ Len(invoices') = Len(invoices) + 1
                     /\ ~Threw(invoices'[Len(invoices')])
              /\ invoices' # invoices =>
                     \A j \in Converted :
                         validCsvData[j] = row
                             => invoices'[Len(invoices')] = invoices[j]]_vars

\* two equal rows with an empty dispute value are converted, on a day
\* after the first
C9_Witness ==
    /\ Len(invoices) >= 2
    /\ validCsvData[1] = validCsvData[2]
    /\ AllStrings(validCsvData[1])
    /\ validCsvData[1].StreitwertKlage = Str(<<>>)
    /\ invoices[1] = invoices[2]
    /\ today > 1

\* the argument has a character no number is written with, is empty, or is
\* no string
NotANumber(x) ==
    \/ ~IsString(x)
    \/ x.s = <<>>
    \/ \E i \in 1..Len(x.s) : ~IsDigit(x.s[i]) /\ x.s[i] \notin {".", ",", "-", "+", " "}

\* C10: parseGermanNumber never returns NaN, and returns 0 for every
\* argument that is not a number in German format
C10_ZeroFallback ==
    pc = "parsed" =>
        /\ ~parsed.nan
        /\ NotANumber(parseArg) => IsZero(parsed)

\* C11 as stated: the banded fee of every record whose dispute value is
\* below 500000 is negative or zero
C11_AsStated ==
    \A i \in Converted :
        DisputeValue(validCsvData[i]) < 50000000 => Fee(i) <= 0

\* C11, amended: a record whose columns are all strings and whose dispute
\* value is below 500000 is converted without an error; its banded fee is
\* never zero, is negative exactly when the dispute value is at most
\* -600000, and is otherwise positive and at most the fee 8139.70 of band 0
\* (which it is above 450000; 4344.70 for the dispute value 0)
C11_BelowThreshold ==
    /\ pc = "critical" => ~AllStrings(validCsvData[Len(invoices) + 1])
    /\ \A i \in Converted :
           LET v == DisputeValue(validCsvData[i])
           IN  v < 50000000 =>
                   /\ Fee(i) # 0
                   /\ Fee(i) < 0 <=> v <= -60000000
                   /\ Fee(i) <= FeeOfBand(0)
                   /\ Fee(i) = FeeOfBand(0) <=> v > 45000000
                   /\ FeeOfBand(0) = 813970
                   /\ v = 0 => Fee(i) = 434470

\* a record with an unparseable dispute value is converted with the
\* positive fee 4344.70
C11_Witness ==
    \E i \in Converted :
        /\ validCsvData[i].StreitwertKlage = Str(<<"x">>)
        /\ invoices[i].einzelStreitwert = 0
        /\ Fee(i) = 434470

\* the calls of stampPDFOnBriefhead that loaded their two documents
Loaded == {c \in CallIds : stamp[c].phase \in {"loop", "returned"} \/
                            (stamp[c].phase = "threw" /\ briefheadFile.exists
                                 /\ briefheadFile.bytes.ok
                                 /\ stamp[c].generatedPdfBuffer.ok)}

\* the calls that ended
Ended == {c \in CallIds : stamp[c].phase \in {"returned", "threw"}}

\* the letterhead page index the claims name for content page i of a
\* letterhead of n >= 1 pages
ClaimedIndex(i, n) == IF i = 0 THEN 0 ELSE IF n = 1 THEN 0 ELSE 1

\* the index of the letterhead page drawn first on each page composed so
\* far by a call
LetterheadIndices(call) ==
    [k \in 1..Len(call.finalDoc) |->
        CHOOSE j \in 0..(Len(call.briefkopfPages) - 1) :
            call.briefkopfPages[j + 1] = call.finalDoc[k].ops[1].page]

\* C12: the page composed for content page i is on letterhead page 0 when
\* i = 0 and on letterhead page min(1, n-1) otherwise; 3 content pages on a
\* 2-page letterhead use the letterhead pages 0, 1, 1 and 2 content pages
\* on a 1-page letterhead the pages 0, 0
C12_PageMapping ==
    \A c \in Loaded :
        LET call == stamp[c]
            n == Len(call.briefkopfPages)
            used == LetterheadIndices(call)
        IN  /\ \A k \in 1..Len(call.finalDoc) : used[k] = ClaimedIndex(k - 1, n)
            /\ (call.phase = "returned" /\ Len(call.generatedPages) = 3 /\ n = 2)
                   => used = <<0, 1, 1>>
            /\ (call.phase = "returned" /\ Len(call.generatedPages) = 2 /\ n = 1)
                   => used = <<0, 0>>

\* a call returned for 3 content pages on a 2-page letterhead
C12_Witness ==
    \E c \in CallIds :
        /\ stamp[c].phase = "returned"
        /\ Len(stamp[c].generatedPages) = 3
        /\ Len(stamp[c].briefkopfPages) = 2
        /\ LetterheadIndices(stamp[c]) = <<0, 1, 1>>

\* C13: the document a call returns has as many pages as the content
\* document, and its page k has content page k as the last thing drawn
C13_PagesPreserved ==
    \A c \in CallIds :
        stamp[c].phase = "returned" =>
            LET content == stamp[c].generatedPdfBuffer.pages
                output == stamp[c].result.pages
            IN  /\ Len(output) = Len(content)
                /\ \A k \in 1..Len(output) :
                       output[k].ops[Len(output[k].ops)].page = content[k]

\* a call returned a document of three pages
C13_Witness ==
    \E c \in CallIds :
        /\ stamp[c].phase = "returned"
        /\ Len(stamp[c].generatedPdfBuffer.pages) = 3
        /\ Len(stamp[c].result.pages) = 3
        /\ stamp[c].result.pages[3].ops[2].page = ContentPage(3)

\* C14: a call on the document an earlier call returned, with the same
\* letterhead, returns a document with as many pages as that document and
\* as the first content document
C14_Idempotent ==
    \A c \in CallIds :
        (c + 1 \in CallIds /\ c + 1 \in Ended) =>
            /\ stamp[c].phase = "returned"
            /\ stamp[c + 1].generatedPdfBuffer = stamp[c].result
            /\ stamp[c + 1].phase = "returned"
            /\ Len(stamp[c + 1].result.pages) = Len(stamp[c].result.pages)
            /\ Len(stamp[c + 1].result.pages) = Len(stamp[1].generatedPdfBuffer.pages)

\* a composed document of 3 pages is composed again, on a letterhead of
\* one page
C14_Witness ==
    /\ stamp[1].phase = "returned"
    /\ stamp[2].phase = "returned"
    /\ Len(stamp[1].result.pages) = 3
    /\ Len(stamp[2].result.pages) = 3
    /\ Len(stamp[2].briefkopfPages) = 1

\* the error of the safety check in the loop
NoPageAtIndex == "Briefkopf PDF does not have a page at index"

\* C16: a call that decoded its documents ends with the error 'does not
\* have a page at index' exactly when the letterhead has no page (the
\* content has at least one); with a letterhead of one or more pages no call
\* ends with this error
C16_ZeroPageLetterhead ==
    \A c \in Ended :
        LET failed == stamp[c].phase = "threw" /\ stamp[c].error = NoPageAtIndex
            decoded == briefheadFile.exists /\ briefheadFile.bytes.ok
                           /\ stamp[c].generatedPdfBuffer.ok
        IN  /\ failed <=> (decoded /\ Len(briefheadFile.bytes.pages) = 0
                               /\ Len(stamp[c].generatedPdfBuffer.pages) >= 1)
            /\ (briefheadFile.bytes.ok /\ Len(briefheadFile.bytes.pages) >= 1)
                   => ~failed

\* a call on a letterhead without pages ended with the error, at the
\* first content page
C16_Witness ==
    \E c \in CallIds :
        /\ stamp[c].phase = "threw"
        /\ stamp[c].error = NoPageAtIndex
        /\ stamp[c].i = 0
        /\ briefheadFile = File(LetterheadDoc(0))
        /\ Len(stamp[c].generatedPages) >= 2

\* C17: every page a call composes has the width and height of the
\* letterhead page selected for it and two things drawn on it: first that
\* letterhead page at the origin in its own size, then the content page at
\* the origin in the content page's size
C17_Layers ==
    \A c \in Loaded :
        LET call == stamp[c]
        IN  \A k \in 1..Len(call.finalDoc) :
                LET page == call.finalDoc[k]
                    letterhead ==
                        call.briefkopfPages[ClaimedIndex(k - 1, Len(call.briefkopfPages)) + 1]
                    content == call.generatedPages[k]
                IN  /\ page.width = letterhead.width
                    /\ page.height = letterhead.height
                    /\ Len(page.ops) = 2
                    /\ page.ops[1] = [page |-> letterhead, x |-> 0, y |-> 0,
                                      width |-> letterhead.width,
                                      height |-> letterhead.height]
                    /\ page.ops[2] = [page |-> content, x |-> 0, y |-> 0,
                                      width |-> content.width,
                                      height |-> content.height]

\* a rendered page of 595 x 842 is composed on a letterhead page of
\* another size
C17_Witness ==
    \E c \in CallIds :
        /\ stamp[c].phase = "returned"
        /\ Len(stamp[c].result.pages) >= 2
        /\ stamp[c].result.pages[2].width # 595
        /\ stamp[c].result.pages[2].ops[2].width = 595
        /\ stamp[c].result.pages[2].ops[2].page = ContentPage(2)

\* the file at a path
FileAt(fs, path) == {f \in fs : f.path = path}

\* C15: when savePDF does not stamp (stamping is disabled, there is no
\* letterhead file, or stampPDFOnBriefhead threw) it writes the generated
\* bytes to the output path and returns this path, and the invoice is
\* counted as a success; in the first two cases stampPDFOnBriefhead is not
\* called, so no document is decoded
C15_PassThrough ==
    [][LET notCalled == pc = "save" /\ pc' # pc
                            /\ (~options.shouldStamp \/ ~briefheadFile.exists)
           threw == pc = "stamping" /\ pc' # pc /\ stamp[1].phase = "threw"
       IN  /\ (notCalled \/ threw) =>
                  /\ FileAt(files', OutputPathOf(CurrentInvoice))
                         = {[path |-> OutputPathOf(CurrentInvoice),
                             bytes |-> generatedPdfBuffer]}
                  /\ generatedPdfBuffer' = generatedPdfBuffer
                  /\ outputPath' = OutputPathOf(CurrentInvoice)
                  /\ errorCount' = errorCount
                  /\ successCount' = successCount + 1
                  /\ pc' = "loop"
           /\ notCalled => stamp' = stamp]_vars

\* stampPDFOnBriefhead threw on a letterhead without pages and the
\* generated document of three pages is in the file savePDF returned
C15_Witness ==
    /\ pc = "loop"
    /\ options.shouldStamp
    /\ stamp[1].phase = "threw"
    /\ stamp[1].generatedPdfBuffer = generatedPdfBuffer
    /\ briefheadFile = File(LetterheadDoc(0))
    /\ FileAt(files, outputPath) = {[path |-> outputPath, bytes |-> ContentDoc(3)]}
    /\ successCount >= 1

\* the document composed of every page of a content document
CompleteStampOf(bytes, content) ==
    /\ bytes.ok
    /\ Len(bytes.pages) = Len(content.pages)
    /\ \A k \in 1..Len(bytes.pages) :
           /\ Len(bytes.pages[k].ops) = 2
           /\ bytes.pages[k].ops[2].page = content.pages[k]

\* C18: a call of stampPDFOnBriefhead that threw returned nothing and one
\* that returned composed every content page; every file written is a
\* rendered document as generatePDF returned it or the document composed
\* of all its pages, and the file of the invoice saved last is that of its
\* generated document
C18_AllOrNothing ==
    /\ \A c \in CallIds :
           /\ stamp[c].phase = "threw" => stamp[c].result = IdleCall.result
           /\ stamp[c].phase = "returned" =>
                  CompleteStampOf(stamp[c].result, stamp[c].generatedPdfBuffer)
    /\ \A f \in files :
           \E content \in ContentDocs :
               f.bytes = content \/ CompleteStampOf(f.bytes, content)
    /\ (pc \in {"loop", "done"} /\ outputPath # <<>>) =>
           \E f \in files :
               /\ f.path = outputPath
               /\ f.bytes = generatedPdfBuffer
                      \/ CompleteStampOf(f.bytes, generatedPdfBuffer)

\* stamping threw at the second page of three, after the first page was
\* composed, and the file holds the generated document
C18_Witness ==
    /\ pc = "loop"
    /\ stamp[1].phase = "threw"
    /\ stamp[1].i = 1
    /\ Len(stamp[1].finalDoc) = 1
    /\ Len(stamp[1].generatedPages) = 3
    /\ FileAt(files, outputPath) = {[path |-> outputPath, bytes |-> ContentDoc(3)]}

\* the error of PDFDocument.load
DecodeFailure == "Failed to parse PDF document"

\* savePDF ends after a call of stampPDFOnBriefhead that could not decode a
\* document
DecodeFailed ==
    /\ pc = "stamping"
    /\ pc' # pc
    /\ stamp[1].phase = "threw"
    /\ stamp[1].error = DecodeFailure

\* C19 as stated: when a document cannot be decoded during stamping,
\* processInvoice throws and main counts the invoice as failed
C19_AsStated ==
    [][DecodeFailed =>
          /\ errorCount' = errorCount + 1
          /\ successCount' = successCount]_vars

\* C19, amended: when a document cannot be decoded during stamping, the
\* error is caught in savePDF, which writes the generated document to the
\* output path and returns; processInvoice does not throw and main counts
\* the invoice as a success
C19_CaughtInSavePDF ==
    [][DecodeFailed =>
          /\ errorCount' = errorCount
          /\ successCount' = successCount + 1
          /\ outputPath' = OutputPathOf(CurrentInvoice)
          /\ \E f \in files' : f.path = outputPath' /\ f.bytes = generatedPdfBuffer
          /\ pc' = "loop"
          /\ exitCode' = exitCode]_vars

\* the letterhead file could not be decoded and the invoice was counted as
\* a success
C19_Witness ==
    /\ pc = "loop"
    /\ briefheadFile = File(Corrupt)
    /\ stamp[1].phase = "threw"
    /\ stamp[1].error = DecodeFailure
    /\ successCount = 1
    /\ errorCount = 0
    /\ \E f \in files : f.path = outputPath /\ f.bytes = generatedPdfBuffer

\* the places of the batch loop
InLoop == {"loop", "generate", "render", "save", "stamping"}

\* C20: once the batch loop is entered it is left only by the summary
\* after the last invoice, also when an invoice fails; the invoices are
\* taken up in the order of the selection, and the summary is reached with
\* every selected invoice taken up
C20_BatchContinues ==
    /\ [][(pc \in InLoop) =>
              /\ pc' \in InLoop \cup {"done"}
              /\ invoicesToProcess' = invoicesToProcess
              /\ attempted' \in {attempted, attempted + 1}
              /\ errorCount' # errorCount => (pc' = "loop" /\ exitCode' = -1)
              /\ pc' = "done" => attempted = Len(invoicesToProcess)]_vars
    /\ [](processed = [k \in 1..attempted |->
                          <<invoicesToProcess[k].lfNr,
                            invoicesToProcess[k].rechnungsNummer>>])
    /\ (pc = "loop") ~> (pc = "done" /\ attempted = Len(invoicesToProcess)
                             /\ Len(processed) = Len(invoicesToProcess))

\* the first of two selected invoices failed in validation and the second
\* was saved
C20_Witness ==
    /\ pc = "done"
    /\ Len(invoicesToProcess) = 2
    /\ Threw(validateInvoiceData(invoicesToProcess[1]))
    /\ errorCount = 1
    /\ successCount = 1
    /\ outputPath = OutputPathOf(invoicesToProcess[2])

\* what a call of stampPDFOnBriefhead on a buffer and a letterhead file ends
\* with when no other call runs: the first failing step's error, or the
\* document of all composed pages
AloneOutcome(buffer, file) ==
    IF ~file.exists
    THEN [phase |-> "threw", result |-> Corrupt,
          error |-> "ENOENT: no such file or directory"]
    ELSE IF ~file.bytes.ok \/ ~buffer.ok
    THEN [phase |-> "threw", result |-> Corrupt, error |-> DecodeFailure]
    ELSE LET briefkopfPages == file.bytes.pages
             generatedPages == buffer.pages
             index(i) == BriefkopfPageIndex(i, Len(briefkopfPages)) + 1
             missing(i) == index(i) \notin 1..Len(briefkopfPages)
             failing == {i \in 0..(Len(generatedPages) - 1) :
                            \/ missing(i)
                            \/ ~CanEmbed(briefkopfPages[index(i)])
                            \/ ~CanEmbed(generatedPages[i + 1])}
         IN  IF failing = {}
             THEN [phase |-> "returned", error |-> "",
                   result |-> Pdf([k \in 1..Len(generatedPages) |->
                                      FinalPage(briefkopfPages[index(k - 1)],
                                                generatedPages[k])])]
             ELSE LET i == CHOOSE j \in failing : \A k \in failing : j <= k
                  IN  [phase |-> "threw", result |-> Corrupt,
                       error |-> IF missing(i) THEN NoPageAtIndex
                                 ELSE "Can't embed page with missing Contents"]

\* the outcome of a call that ended
OutcomeOf(call) == [phase |-> call.phase, result |-> call.result, error |-> call.error]

\* C21: calls of stampPDFOnBriefhead running at the same time on different
\* content documents and the same letterhead share no state: a step of one
\* call changes nothing of another call, and under every interleaving a
\* call ends with what it ends with when it runs alone
C21_Independent ==
    /\ [](\A c \in Ended :
              OutcomeOf(stamp[c]) = AloneOutcome(stamp[c].generatedPdfBuffer, briefheadFile))
    /\ [][\A c, d \in CallIds :
              (c # d /\ stamp'[c] # stamp[c]) => stamp'[d] = stamp[d]]_vars

\* the first call is in its loop with one page of three composed while the
\* second call, on two other pages, has composed both and returned
C21_Witness ==
    /\ stamp[1].phase = "loop"
    /\ stamp[1].i = 1
    /\ Len(stamp[1].finalDoc) = 1
    /\ stamp[1].generatedPdfBuffer = ContentDoc(3)
    /\ stamp[2].phase = "returned"
    /\ stamp[2].generatedPdfBuffer = ContentDoc(2)
    /\ stamp[2].result = AloneOutcome(ContentDoc(2), briefheadFile).result

\* a part that is a number: digits only
IsNumberPart(part) == part # <<>> /\ \A i \in 1..Len(part) : IsDigit(part[i])

\* what the claim has a part contribute: a number its decimal string, a
\* range a-b with a <= b the integers from a to b, anything else nothing
ClaimedLfNrsOfPart(part) ==
    LET t == Trim(part)
        dashes == {i \in 1..Len(t) : t[i] = "-"}
    IN  IF IsNumberPart(t) THEN <<NatDigits(DigitsVal(t))>>
        ELSE IF Cardinality(dashes) # 1 THEN <<>>
        ELSE LET k == CHOOSE i \in dashes : TRUE
                 left == Trim(SubSeq(t, 1, k - 1))
                 right == Trim(SubSeq(t, k + 1, Len(t)))
             IN  IF IsNumberPart(left) /\ IsNumberPart(right)
                    /\ DigitsVal(left) <= DigitsVal(right)
                 THEN [j \in 1..(DigitsVal(right) - DigitsVal(left) + 1) |->
                          NatDigits(DigitsVal(left) + j - 1)]
                 ELSE <<>>

RECURSIVE ClaimedLfNrsOfParts(_)
ClaimedLfNrsOfParts(parts) ==
    IF parts = <<>> THEN <<>>
    ELSE ClaimedLfNrsOfPart(Head(parts)) \o ClaimedLfNrsOfParts(Tail(parts))

\* C22: parseLfNrSpecification returns, in the order of the parts, the
\* decimal string of every part that is a number and the integers of every
\* range a-b with a <= b; a part that is not a number and a range with
\* a > b contribute nothing
C22_AsStated ==
    pc = "options" =>
        options.targetLfNrs = ClaimedLfNrsOfParts(Split(options.targetLfNr.s, ","))

\* the fields in the order of the claim
ClaimedFields == <<"name", "strasse", "plz", "ort", "gesamtbetragBrutto", "datum">>

\* a field that is not present: undefined, null, the empty string, the
\* total 0
Absent(invoiceData, field) ==
    IF field = "gesamtbetragBrutto" THEN invoiceData.gesamtbetragBrutto = 0
    ELSE invoiceData[field] \in {Undefined, Null, Str(<<>>)}

\* C23: validateInvoiceData returns true exactly when name, strasse, plz,
\* ort, gesamtbetragBrutto and datum are all present; otherwise it throws
\* 'Missing required field: <field>' with the first absent field of this
\* order; the invoice data is as it was
C23_Validation ==
    /\ [](pc = "validated" =>
              LET absent == {k \in 1..6 : Absent(invoices[1], ClaimedFields[k])}
              IN  /\ validated = [value |-> TRUE] <=> absent = {}
                  /\ absent # {} =>
                         \E k \in absent :
                             /\ \A j \in absent : k <= j
                             /\ validated = [error |->
                                    <<"Missing required field: ", ClaimedFields[k]>>])
    /\ [][invoices' = invoices]_vars

\* plz and ort are both absent and the error names plz
C23_Witness ==
    /\ pc = "validated"
    /\ invoices[1].name # Str(<<>>)
    /\ invoices[1].strasse = Str(<<"Weg 1">>)
    /\ invoices[1].plz = Str(<<>>)
    /\ invoices[1].ort = Str(<<>>)
    /\ validated = [error |-> <<"Missing required field: ", "plz">>]

\* the salutation of a column, '' for a column without a value
Salutation(v) == IF Truthy(v) THEN v.s ELSE <<>>

\* C24: buildAnrede gives '<Anrede> und <Anrede2>' for two salutations,
\* '<Anrede>, <Anrede2> und <Anrede3>' for three and '<Anrede>' for the
\* first alone
C24_AsStated ==
    \A i \in Converted :
        LET row == validCsvData[i]
            a1 == Salutation(row.Anrede)
            a2 == Salutation(row.Anrede2)
            a3 == Salutation(row.Anrede3)
            anrede == invoices[i].empfaengerAnrede
        IN  /\ (a1 # <<>> /\ a2 # <<>> /\ a3 = <<>>) =>
                   anrede = Str(a1 \o <<" ", "u", "n", "d", " ">> \o a2)
            /\ (a1 # <<>> /\ a2 # <<>> /\ a3 # <<>>) =>
                   anrede = Str(a1 \o <<",", " ">> \o a2 \o <<" ", "u", "n", "d", " ">> \o a3)
            /\ (a1 # <<>> /\ a2 = <<>> /\ a3 = <<>>) => anrede = Str(a1)

\* the parsed 'Gesamtstreitwert' of a row in cents
TotalDisputeValue(row) == parseGermanNumber(row.Gesamtstreitwert).v

\* C25: the banded fee of every converted record is that of the band of
\* its 'Gesamtstreitwert', ceil((Gesamtstreitwert - 500000) / 50000), so
\* two records with the same 'Gesamtstreitwert' have the same fee
C25_AsStated ==
    /\ \A i \in Converted :
           Fee(i) = FeeOfBand(BandOf(TotalDisputeValue(validCsvData[i])))
    /\ \A i, j \in Converted :
           TotalDisputeValue(validCsvData[i]) = TotalDisputeValue(validCsvData[j])
               => Fee(i) = Fee(j)

\* C26: processInvoice validates, renders and saves in this order, each
\* step only after the one before it succeeded: generatePDF starts only
\* from a validation that returned true, savePDF only from a rendering
\* that returned a document, and files are written only in savePDF; a
\* failure of validation or rendering is counted by main as a failure of
\* the invoice with savePDF not called and no file written, so that the
\* files are those of the invoices that succeeded
C26_StepOrder ==
    /\ [][/\ (pc' = "generate" /\ pc # "generate") =>
                 (pc = "loop" /\ validated' = [value |-> TRUE])
          /\ (pc' = "render" /\ pc # "render") => (pc = "generate" /\ browser' = "open")
          /\ (pc' = "save" /\ pc # "save") =>
                 (pc = "render" /\ generatedPdfBuffer' \in ContentDocs)
          /\ (pc' = "stamping" /\ pc # "stamping") => pc = "save"
          /\ (files' # files \/ outputPath' # outputPath) => pc \in {"save", "stamping"}
          /\ (stamp' # stamp) => pc \in {"save", "stamping"}
          /\ (attempted' # attempted /\ pc' = "loop") =>
                 (Threw(validated') /\ errorCount' = errorCount + 1)
          /\ (pc \in {"generate", "render"} /\ pc' = "loop") =>
                 errorCount' = errorCount + 1
          /\ (pc \in {"loop", "generate", "render"} /\ errorCount' # errorCount) =>
                 (pc' = "loop" /\ successCount' = successCount)]_vars
    /\ [](pc \in {"loop", "done"} =>
              /\ Cardinality(files) = successCount
              /\ \A k \in 1..attempted :
                     Threw(validateInvoiceData(invoicesToProcess[k])) =>
                         FileAt(files, OutputPathOf(invoicesToProcess[k])) = {})

\* the invoice passed the validation, the browser was launched and the
\* rendering failed: main counted a failure and there is no file
C26_Witness ==
    /\ pc = "loop"
    /\ attempted = 1
    /\ validated = [value |-> TRUE]
    /\ browser = "closed"
    /\ errorCount = 1
    /\ successCount = 0
    /\ files = {}
    /\ stamp[1] = IdleCall

\* the invoices the loop is done with: those taken up, without the one
\* processInvoice is working on
Finished == IF pc \in {"generate", "render", "save", "stamping"} THEN attempted - 1
            ELSE attempted

\* C27: in the batch loop every selected invoice is counted once, as a
\* success or as a failure: successCount + errorCount is always the number
\* of invoices the loop is done with and a step adds at most one to one of
\* the counters; at the summary the sum is the number of selected invoices
\* and the exit status is 1 exactly when errorCount > 0, and 0 otherwise
C27_Counters ==
    /\ [](pc \in InLoop \cup {"done"} => successCount + errorCount = Finished)
    /\ [](pc = "done" =>
              /\ successCount + errorCount = Len(invoicesToProcess)
              /\ exitCode = 1 <=> errorCount > 0
              /\ exitCode = 0 <=> errorCount = 0)
    /\ [][/\ successCount' \in {successCount, successCount + 1}
          /\ errorCount' \in {errorCount, errorCount + 1}
          /\ successCount' + errorCount' <= successCount + errorCount + 1
          /\ (pc \in InLoop /\ exitCode' # exitCode) => pc' = "done"]_vars

\* the summary after one success and one failure, with exit status 1
C27_Witness ==
    /\ pc = "done"
    /\ Len(invoicesToProcess) = 2
    /\ successCount = 1
    /\ errorCount = 1
    /\ exitCode = 1

\* a --lf specification is given and --all is not
LfSelection == ~options.processAll /\ Truthy(options.targetLfNr)

\* the rows of the CSV file with a 'Nachname1' that is not empty whose
\* trimmed 'Lf. Nr.' is an element of the expanded list, in the order of
\* the file
RowsOfLfSelection ==
    SelectSeq(csvRows, LAMBDA row :
        /\ IsString(row.Nachname1) /\ Trim(row.Nachname1.s) # <<>>
        /\ Trim(row.LfNr.s) \in {options.targetLfNrs[k] : k \in 1..Len(options.targetLfNrs)})

\* C28: with --lf and without --all the invoices the loop works on are
\* those of the rows with a non-empty Nachname1 whose trimmed 'Lf. Nr.' is
\* in the expanded list, in the order of the CSV file and each once; when
\* the loop has ended these and no others have been processed; if no row
\* matches the loop is never entered, nothing is processed and the process
\* exits with status 1
C28_LfSelection ==
    LfSelection =>
        /\ pc \in InLoop \cup {"done"} =>
               /\ RowsOfLfSelection # <<>>
               /\ invoicesToProcess = [k \in 1..Len(RowsOfLfSelection) |->
                                          calculateInvoiceData(RowsOfLfSelection[k])]
        /\ pc = "done" =>
               processed = [k \in 1..Len(RowsOfLfSelection) |->
                               <<RowsOfLfSelection[k].LfNr,
                                 calculateInvoiceData(RowsOfLfSelection[k]).rechnungsNummer>>]
        /\ pc = "exited" =>
               /\ RowsOfLfSelection = <<>>
               /\ exitCode = 1
               /\ processed = <<>>
               /\ attempted = 0
               /\ files = {}
        /\ pc # "start" => exitCode # 0 \/ pc = "done"

\* --lf=2,1 on a file with the rows 1 and 2 in this order: both were
\* processed, row 1 before row 2
C28_Witness ==
    /\ pc = "done"
    /\ options.targetLfNr = Str(<<"2", ",", "1">>)
    /\ Len(processed) = 2
    /\ processed[1][1] = Str(<<"1">>)
    /\ processed[2][1] = Str(<<"2", " ">>)

\* C29: the total gesamtbetragBrutto of every converted record is not 0,
\* whatever the dispute value: it is positive down to band -22 and
\* negative from band -23 on; validateInvoiceData does not find the total
\* missing
C29_TotalNotZero ==
    \A i \in Converted :
        LET band == BandOf(DisputeValue(validCsvData[i]))
            total == invoices[i].gesamtbetragBrutto
        IN  /\ total # 0
            /\ total > 0 <=> band >= -22
            /\ validateInvoiceData(invoices[i])
                   # [error |-> <<"Missing required field: ", "gesamtbetragBrutto">>]
            /\ validCsvData[i] \in {[BaseRecord EXCEPT !.StreitwertKlage = s] :
                                       s \in StreitwertStrings}
                   => validateInvoiceData(invoices[i]) = [value |-> TRUE]

\* the dispute value -650000.00, one cent below band -22 where the total is
\* 250.47: band -23, the total nearest to 0, -201.13
C29_Witness ==
    \E i \in Converted :
        /\ validCsvData[i].StreitwertKlage = GermanAmount(-65000000)
        /\ invoices[i].gesamtbetragBrutto = -20113
        /\ validateInvoiceData(invoices[i]) = [value |-> TRUE]

\* C30: generatePDF leaves no browser open: a browser is open only while
\* generatePDF is at its rendering steps, and when generatePDF ends after a
\* launch, with the buffer returned or with the error thrown on, the browser
\* is closed; without a launch there is no browser
C30_BrowserClosed ==
    /\ [](browser = "open" => pc = "render")
    /\ [][/\ (pc = "render" /\ pc' # "render") =>
                 /\ browser = "open"
                 /\ browser' = "closed"
                 /\ pc' \in {"save", "loop"}
          /\ (pc = "generate" /\ pc' = "loop") => browser' = "undefined"
          /\ (browser' = "open" /\ browser # "open") =>
                 (pc = "generate" /\ pc' = "render")]_vars

\* the browser was launched, the rendering failed, no buffer was returned
\* and the browser is closed
C30_Witness ==
    /\ pc = "loop"
    /\ attempted = 1
    /\ browser = "closed"
    /\ generatedPdfBuffer = Corrupt
    /\ errorCount = 1

====
